---- MODULE Spec2Model ----
(***************************************************************************)
(* A model of the rule-application engine of vyakarana: the upadesha and   *)
(* state value objects, the filter algebra, the operators, Rule.apply,     *)
(* the apavada inference, the rule tree, and the derivation driver.        *)
(*                                                                         *)
(* Conventions.  Python strings are sequences of one-letter strings.      *)
(* Indices into a state are 0-based as in the code; Item(state, i) reads   *)
(* position i.  A rule object is identified by its name (names are the     *)
(* unique ids of rules), so `ops` and `utsarga` hold rule names.           *)
(***************************************************************************)
EXTENDS Integers, Sequences, FiniteSets, TLC

VARIABLES
    rules,          \* Ashtadhyayi.rules: the rules, first to last
    ranked_rules,   \* Ashtadhyayi.ranked_rules: highest priority first
    rule_tree,      \* Ashtadhyayi.rule_tree
    pc,             \* position of the derive generator
    stack,          \* derive's stack of pending states
    blocked,        \* per stacked state: the stamps of blocking-only rules
                    \* on its derivation path, as (position, rule) pairs
    emitted,        \* the forms derive has yielded so far
    step,           \* record of the last iteration of derive's loop; turn
                    \* is the parity of the number of iterations
    fa, fb,         \* the two filters under comparison (filter algebra)
    lists,          \* the Python lists State objects refer to, by address
    objects,        \* the State objects made so far: the addresses of
                    \* their items and history lists
    call,           \* the last method called on a State object
    upa,            \* the upadesha under edit
    held,           \* the raw values upa has held so far
    written,        \* the last write to upa: (layer, string written)
    given,          \* the arguments of Upadesha(raw, **kw):
                    \* (raw, pratyaya, vibhakti, taddhita)
    made,           \* the Upadesha constructed from them, in a tuple
    again,          \* what _parse_it returned or raised for the clean
                    \* string of made, in a tuple
    pair,           \* the two operators of a call a.conflicts_with(b)
    verdict,        \* what a.conflicts_with(b) and b.conflicts_with(a)
                    \* returned, in a tuple
    all_dhatu,      \* Dhatupatha.all_dhatu: the roots, one for each row
    gana_map,       \* Dhatupatha.gana_map: the gana of each row
    asked,          \* the arguments of dhatu_range(start, end)
    answer,         \* the list dhatu_range returned, in a tuple
    base,           \* process_tuples: the base filters of a rule block
    prev_filters,   \* process_tuples: prev, the filters of the last tuple
    prev_operator,  \* process_tuples: the operator of the last tuple
    tuple_in,       \* the tuple rule process_tuples read last
    tuple_out,      \* what process_tuples yielded for it
    recent,         \* per window position, and for the operator: what the
                    \* last entry other than True resolved to
    sthani,         \* the arguments of tasya(sthani, adi)
    host,           \* the state the tasya operator is called on, at index 0
    replaced,       \* what the call returned or raised, in a tuple
    probe,          \* the arguments of rule_tree.select(state, index)
    selection       \* the set select returned, in a tuple

\* The variables of the State objects on their own.
stateVars == <<lists, objects, call>>

\* The variables of the upadesha under edit.
termVars == <<upa, held, written>>

\* The variables of the construction of an upadesha.
parseVars == <<given, made, again>>

\* The variables of a comparison of two operators.
opVars == <<pair, verdict>>

\* The variables of the Dhatupatha and of a range query.
dhatuVars == <<all_dhatu, gana_map, asked, answer>>

\* The variables of a rule block under expansion.
tmplVars == <<base, prev_filters, prev_operator, tuple_in, tuple_out, recent>>

\* The variables of the parts modelled after the Dhatupatha.
\* The variables of a call of a tasya operator.
tasyaVars == <<sthani, host, replaced>>

\* The variables of a call of RuleTree.select.
selectVars == <<probe, selection>>

later == <<tmplVars, tasyaVars, selectVars>>

\* The variables the engine and the filter algebra leave alone.
others == <<stateVars, termVars, parseVars, opVars, dhatuVars, later>>

vars == <<rules, ranked_rules, rule_tree, pc, stack, blocked, emitted, step,
          fa, fb, others>>

(***************************************************************************)
(* Bounds of the model.                                                    *)
(***************************************************************************)
\* The model keeps the first MaxHist records of a state's history.
MaxHist == 4
\* A rule set holds at most MaxRules rules of the catalogue.
MaxRules == 3
\* derive's stack holds at most MaxStack states.
MaxStack == 4
\* The model keeps the first MaxEmit forms derive yields.
MaxEmit == 3
\* A filter under comparison has at most MaxNodes nodes.
MaxNodes == 5
\* At most MaxObjects State objects are made.
MaxObjects == 3
\* The list a State is first made of holds at most MaxItems terms.
MaxItems == 2
\* A raw string has at most MaxRaw letters.
MaxRaw == 5

\* The most rows of a Dhatupatha file.
MaxRows == 3

\* The most letters of the value of a term a substitution is made in.
MaxValue == 3

(***************************************************************************)
(* Small helpers.                                                          *)
(***************************************************************************)
Range(s) == {s[i] : i \in DOMAIN s}

RECURSIVE Flatten(_)
Flatten(ss) == IF ss = <<>> THEN <<>> ELSE Head(ss) \o Flatten(Tail(ss))

RECURSIVE Perms(_)
Perms(S) ==
    IF S = {} THEN {<<>>}
    ELSE UNION {{<<x>> \o p : p \in Perms(S \ {x})} : x \in S}

(***************************************************************************)
(* upadesha.py: DataSpace and Upadesha.                                    *)
(***************************************************************************)
Fields == <<"raw", "clean", "value", "asiddhavat", "asiddha">>

\* DataSpace.replace(**kw): kw is a function from some fields to strings.
\* `prev` starts as None, which is falsy like the empty string.
RECURSIVE ReplaceFrom(_, _, _, _)
ReplaceFrom(data, kw, k, prev) ==
    IF k > Len(Fields) THEN data
    ELSE LET f == Fields[k] IN
         IF f \in DOMAIN kw
         THEN ReplaceFrom([data EXCEPT ![f] = kw[f]], kw, k + 1, kw[f])
         ELSE IF prev # <<>>
              THEN ReplaceFrom([data EXCEPT ![f] = prev], kw, k + 1, prev)
              ELSE ReplaceFrom(data, kw, k + 1, prev)

DataSpace_replace(data, kw) == ReplaceFrom(data, kw, 1, <<>>)

\* Upadesha(data=..., samjna=...): the constructor without raw.
Upadesha(data, samjna) ==
    [data |-> data, samjna |-> samjna, lakshana |-> {}, ops |-> {}]

\* DataSpace(raw, clean, clean, clean, clean)
DataSpace(raw, clean) ==
    [raw |-> raw, clean |-> clean, value |-> clean,
     asiddhavat |-> clean, asiddha |-> clean]

\* Upadesha.__eq__: data, samjna and ops; lakshana is not compared.
Upadesha_eq(a, b) ==
    /\ a.data = b.data
    /\ a.samjna = b.samjna
    /\ a.ops = b.ops

\* Upadesha.copy: a falsy argument (None, empty set) keeps the old field.
\* `data` is <<>> for None and <<d>> for a DataSpace d.
Upadesha_copy(self, data, samjna, lakshana, ops) ==
    [data     |-> IF data = <<>> THEN self.data ELSE data[1],
     samjna   |-> IF samjna = {} THEN self.samjna ELSE samjna,
     lakshana |-> IF lakshana = {} THEN self.lakshana ELSE lakshana,
     ops      |-> IF ops = {} THEN self.ops ELSE ops]

\* A mutant of add_samjna: the new tags replace the old ones.
Upadesha_add_samjna_replacing(self, names) ==
    Upadesha_copy(self, <<>>, names, {}, {})

Upadesha_add_samjna(self, names) ==
    Upadesha_copy(self, <<>>, self.samjna \cup names, {}, {})

\* Upadesha.remove_samjna(*names)
Upadesha_remove_samjna(self, names) ==
    [self EXCEPT !.samjna = @ \ names]

\* Upadesha.add_op(*rules)
Upadesha_add_op(self, names) ==
    Upadesha_copy(self, <<>>, {}, {}, self.ops \cup names)

\* Upadesha.get_at(locus) and Upadesha.set_at(locus, value)
Upadesha_get_at(self, locus) == self.data[locus]

Upadesha_set_at(self, locus, value) ==
    Upadesha_copy(self,
                  <<DataSpace_replace(self.data, (locus :> value))>>, {}, {}, {})

\* Upadesha.set_value and Upadesha.set_asiddhavat
Upadesha_set_value(self, value) ==
    Upadesha_copy(self,
                  <<DataSpace_replace(self.data, ("value" :> value))>>,
                  {}, {}, {})

Upadesha_set_asiddhavat(self, asiddhavat) ==
    Upadesha_copy(self,
                  <<DataSpace_replace(self.data, ("asiddhavat" :> asiddhavat))>>,
                  {}, {}, {})

(***************************************************************************)
(* upadesha.py: Upadesha._parse_it.  The sound groups are those of the     *)
(* sounds module in SLP1.                                                  *)
(***************************************************************************)
Sounds_ac ==
    {"a", "A", "i", "I", "u", "U", "f", "F", "x", "X", "e", "E", "o", "O"}

Sounds_hal ==
    {"k", "K", "g", "G", "N", "c", "C", "j", "J", "Y", "w", "W", "q", "Q",
     "R", "t", "T", "d", "D", "n", "p", "P", "b", "B", "m", "y", "r", "l",
     "v", "S", "z", "s", "h"}

Sounds_tu_s_m == {"t", "T", "d", "D", "n", "s", "m"}

Sounds_l_S_ku == {"l", "S", "k", "K", "g", "G", "N"}

\* s[i - 1] for the 1-based position k of s[i]: Python reads s[-1], the
\* last letter, at the first position.
Before(s, k) == IF k = 1 THEN s[Len(s)] ELSE s[k - 1]

\* The svara loop: the tags of the accent marks.
SvaraSamjna(raw) ==
    {IF Before(raw, k) = "~"
     THEN (IF raw[k] = "\\" THEN "anudattet" ELSE "svaritet")
     ELSE (IF raw[k] = "\\" THEN "anudatta" ELSE "svarita") :
        k \in {j \in DOMAIN raw : raw[j] \in {"\\", "^"}}}

\* clean = re.sub('[\\^]', '', raw)
StripSvara(raw) == SelectSeq(raw, LAMBDA L : L \notin {"\\", "^"})

EndsWith_ir(clean) ==
    /\ Len(clean) >= 3
    /\ SubSeq(clean, Len(clean) - 2, Len(clean)) = <<"i", "~", "r">>

\* clean after the ir step: clean = clean[-3:]
Clean_ir(raw) ==
    LET clean == StripSvara(raw) IN
    IF EndsWith_ir(clean)
    THEN SubSeq(clean, Len(clean) - 2, Len(clean))
    ELSE clean

\* A mutant of hal antyam: the vibhakti flag is not looked at.
AntyaIsIt_always(clean, vibhakti) == clean[Len(clean)] \in Sounds_hal

\* hal antyam applies to the last letter.
AntyaIsIt(clean, vibhakti) ==
    /\ clean[Len(clean)] \in Sounds_hal
    /\ ~(vibhakti /\ clean[Len(clean)] \in Sounds_tu_s_m)

\* A mutant of 1.3.5: no first letters are indicatory.
TwoLetter_never(clean) == FALSE

\* 1.3.5: the first two letters are Yi, wu or qu.
TwoLetter(clean) ==
    /\ Len(clean) >= 2
    /\ SubSeq(clean, 1, 2) \in {<<"Y", "i">>, <<"w", "u">>, <<"q", "u">>}

\* The first letter of an affix is an it by 1.3.6 and 1.3.7 ...
AdiIsIt_cutu(raw, pratyaya) ==
    pratyaya /\ raw[1] \in {"z", "c", "j", "Y", "w", "q", "R"}

\* ... or by 1.3.8.
AdiIsIt_lasaku(clean, pratyaya, taddhita) ==
    pratyaya /\ ~taddhita /\ clean[1] \in Sounds_l_S_ku

\* keep, for the 1-based position k of clean (clean the value after the
\* ir step).
Keep(raw, clean, pratyaya, vibhakti, taddhita, k) ==
    LET n == Len(clean) IN
    /\ clean[k] # "~"
    /\ ~(k < n /\ clean[k + 1] = "~")
    /\ ~(k = n /\ clean[1] = "~")
    /\ ~(k = n /\ AntyaIsIt(clean, vibhakti))
    /\ ~(k <= 2 /\ TwoLetter(clean))
    /\ ~(k = 1 /\ AdiIsIt_cutu(raw, pratyaya))
    /\ ~(k = 1 /\ AdiIsIt_lasaku(clean, pratyaya, taddhita))

\* The positions of clean where keep is True.
Kept(raw, pratyaya, vibhakti, taddhita) ==
    {k \in DOMAIN Clean_ir(raw) :
        Keep(raw, Clean_ir(raw), pratyaya, vibhakti, taddhita, k)}

\* The set `it` of indicatory letters.
ItSet(raw, clean, pratyaya, vibhakti, taddhita) ==
    (IF EndsWith_ir(StripSvara(raw)) THEN {"ir"} ELSE {})
    \cup {Before(clean, k) \o "d" : k \in {j \in DOMAIN clean : clean[j] = "~"}}
    \cup (IF AntyaIsIt(clean, vibhakti) THEN {clean[Len(clean)]} ELSE {})
    \cup (IF AdiIsIt_cutu(raw, pratyaya) THEN {clean[1]} ELSE {})
    \cup (IF AdiIsIt_lasaku(clean, pratyaya, taddhita) THEN {clean[1]} ELSE {})

\* Upadesha._parse_it(raw, **kw): the pair (clean, samjna).  It raises
\* IndexError when nothing is left of raw without its accent marks; the
\* model calls it on other strings only.
Upadesha__parse_it(raw, pratyaya, vibhakti, taddhita) ==
    LET clean == Clean_ir(raw)
        kept == Kept(raw, pratyaya, vibhakti, taddhita)
        RECURSIVE Join(_)
        Join(k) == IF k > Len(clean) THEN <<>>
                   ELSE (IF k \in kept THEN <<clean[k]>> ELSE <<>>) \o Join(k + 1)
    IN  << Join(1),
           SvaraSamjna(raw)
           \cup (IF TwoLetter(clean)
                 THEN {clean[1] \o (IF clean[2] = "u" THEN "vit" ELSE "It")}
                 ELSE {})
           \cup {x \o "it" :
                    x \in ItSet(raw, clean, pratyaya, vibhakti, taddhita)} >>

\* Upadesha(raw, samjna=None, **kw): the constructor with raw.
Upadesha_raw(raw, samjna, pratyaya, vibhakti, taddhita) ==
    LET parsed == Upadesha__parse_it(raw, pratyaya, vibhakti, taddhita) IN
    Upadesha(DataSpace(raw, parsed[1]), samjna \cup parsed[2])

\* filters.py: the body of lakshana(*names) on a term
lakshana_func(names, term) == \E n \in names : n \in term.lakshana

\* Upadesha.set_raw
Upadesha_set_raw(self, raw) ==
    LET parsed == Upadesha__parse_it(raw, FALSE, FALSE, FALSE) IN
    Upadesha_copy(self,
        <<DataSpace_replace(self.data,
                            ("raw" :> raw) @@ ("clean" :> parsed[1]))>>,
        self.samjna \cup parsed[2],
        self.lakshana \cup {self.data.raw},
        {})

(***************************************************************************)
(* util.py: State.                                                         *)
(***************************************************************************)
State(items) == [items |-> items, history |-> <<>>]

Item(state, i) == state.items[i + 1]

StateLen(state) == Len(state.items)

\* State.__eq__: the lists of terms are compared with Upadesha.__eq__.
State_eq(a, b) ==
    /\ Len(a.items) = Len(b.items)
    /\ \A k \in DOMAIN a.items : Upadesha_eq(a.items[k], b.items[k])

\* State._push_rule: history.append((rule.name, index)).  The model keeps
\* the first MaxHist records.
State_push_rule(history, name, index) ==
    IF Len(history) < MaxHist
    THEN Append(history, <<name, index>>)
    ELSE history

\* A mutant of State.mark_rule: the record takes the place of the last one.
State_mark_rule_over(state, name, index) ==
    [state EXCEPT !.history =
        IF @ = <<>> THEN <<<<name, index>>>>
        ELSE [@ EXCEPT ![Len(@)] = <<name, index>>]]

\* State.mark_rule
State_mark_rule(state, name, index) ==
    [state EXCEPT !.history = State_push_rule(@, name, index)]

\* State.swap(index, item) with rule=None
State_swap(state, index, item) ==
    [state EXCEPT !.items[index + 1] = item]

\* State.insert(index, item) with rule=None; list.insert clamps the index.
State_insert(state, index, item) ==
    LET n == Len(state.items)
        p == IF index > n THEN n ELSE index
    IN  [state EXCEPT !.items =
            SubSeq(state.items, 1, p) \o <<item>> \o SubSeq(state.items, p + 1, n)]

(***************************************************************************)
(* filters.py: filters are trees; a filter's name is unique and is built   *)
(* from the constructor's name and the parameters.                         *)
(***************************************************************************)
\* samjna(*names), a TermFilter
samjna(names) == [names |-> names, kind |-> "samjna", members |-> <<>>]
\* and_(*filters), or_(*filters), not_(filt)
and_(filters) == [names |-> <<>>, kind |-> "and", members |-> filters]
or_(filters) == [names |-> <<>>, kind |-> "or", members |-> filters]
not_(filt) == [names |-> <<>>, kind |-> "not", members |-> <<filt>>]
\* allow_all, unparameterized
allow_all == [names |-> <<>>, kind |-> "allow_all", members |-> <<>>]

\* ', '.join(parts) on token sequences
RECURSIVE JoinComma(_)
JoinComma(parts) ==
    IF parts = <<>> THEN <<>>
    ELSE IF Len(parts) = 1 THEN parts[1]
    ELSE parts[1] \o <<", ">> \o JoinComma(Tail(parts))

\* Filter.parameterized: name = "<fn>(<params>)" with '_' removed; the
\* params of a combinator are the names of its members.
RECURSIVE Filter_name(_)
Filter_name(f) ==
    IF f.kind = "allow_all" THEN <<"allow_all">>
    ELSE IF f.kind = "samjna"
    THEN <<"samjna", "(">> \o JoinComma([i \in DOMAIN f.names |-> <<f.names[i]>>])
         \o <<")">>
    ELSE <<f.kind, "(">>
         \o JoinComma([i \in DOMAIN f.members |-> Filter_name(f.members[i])])
         \o <<")">>

\* Only and_ sets func.members on its body.
HasMembers(f) == f.kind = "and"

\* TermFilter.__call__ / Filter.__call__ with the bodies of samjna, and_,
\* or_, not_ and allow_all.  A TermFilter is False where state[index]
\* raises IndexError; Python reads a negative index from the end.
RECURSIVE Filter_call(_, _, _)
Filter_call(f, state, index) ==
    LET n == Len(state.items) IN
    CASE f.kind = "samjna" ->
            /\ index < n
            /\ index >= -n
            /\ LET term == IF index >= 0 THEN state.items[index + 1]
                           ELSE state.items[n + index + 1]
               IN  \E k \in DOMAIN f.names : f.names[k] \in term.samjna
      [] f.kind = "and" ->
            \A k \in DOMAIN f.members : Filter_call(f.members[k], state, index)
      [] f.kind = "or" ->
            \E k \in DOMAIN f.members : Filter_call(f.members[k], state, index)
      [] f.kind = "not" -> ~Filter_call(f.members[1], state, index)
      [] OTHER -> TRUE

\* A mutant of subset_of: the members are compared by name only, without
\* recursion into nested conjunctions.
Filter_subset_of_shallow(self, filt) ==
    \/ Filter_name(self) = Filter_name(filt)
    \/ /\ HasMembers(self)
       /\ \E k \in DOMAIN self.members :
              Filter_name(self.members[k]) = Filter_name(filt)

\* A mutant of subset_of: the members of any combinator are read, not only
\* those of a conjunction.
Filter_subset_of_members(self, filt) ==
    \/ Filter_name(self) = Filter_name(filt)
    \/ \E k \in DOMAIN self.members :
           Filter_name(self.members[k]) = Filter_name(filt)

\* Filter.subset_of
RECURSIVE Filter_subset_of(_, _)
Filter_subset_of(self, filt) ==
    \/ Filter_name(self) = Filter_name(filt)
    \/ /\ HasMembers(self)
       /\ \E k \in DOMAIN self.members : Filter_subset_of(self.members[k], filt)

\* Filter.supersets, the set Rule.features reads: the atomic filters a
\* filter implies (the members of a conjunction, recursively; any other
\* filter itself), allow_all left out.
RECURSIVE Filter_supersets(_)
Filter_supersets(f) ==
    IF HasMembers(f)
    THEN UNION {Filter_supersets(f.members[k]) : k \in DOMAIN f.members}
    ELSE IF Filter_name(f) # <<"allow_all">> THEN {f} ELSE {}

(***************************************************************************)
(* operators.py                                                            *)
(***************************************************************************)
conflicts ==
    << {"dirgha", "hrasva"}, {"insert"}, {"replace"}, {"add_samjna"},
       {"ti", "tasya"} >>

\* Operators: add_samjna(*names), insert(term), dirgha, hrasva.
add_samjna(names) == [term |-> <<>>, category |-> "add_samjna", params |-> names]
insert(term) == [term |-> <<term>>, category |-> "insert", params |-> {}]
dirgha == [term |-> <<>>, category |-> "dirgha", params |-> {}]
hrasva == [term |-> <<>>, category |-> "hrasva", params |-> {}]

\* Operator.conflicts_with
Operator_conflicts_with(self, other) ==
    \E k \in DOMAIN conflicts :
        self.category \in conflicts[k] /\ other.category \in conflicts[k]

dirgha_converter ==
    ("a" :> "A") @@ ("i" :> "I") @@ ("u" :> "U") @@ ("f" :> "F") @@ ("x" :> "X")

hrasva_converter ==
    ("A" :> "a") @@ ("I" :> "i") @@ ("U" :> "u") @@ ("F" :> "f") @@ ("X" :> "x")
    @@ ("e" :> "i") @@ ("E" :> "i") @@ ("o" :> "u") @@ ("O" :> "u")

\* The loop of dirgha and hrasva: the first letter the converter knows is
\* converted, the rest is kept.
RECURSIVE ConvertFirst(_, _)
ConvertFirst(letters, converter) ==
    IF letters = <<>> THEN <<>>
    ELSE IF Head(letters) \in DOMAIN converter
         THEN <<converter[Head(letters)]>> \o Tail(letters)
         ELSE <<Head(letters)>> \o ConvertFirst(Tail(letters), converter)

DataOperator_body(op, value) ==
    IF op.category = "dirgha" THEN ConvertFirst(value, dirgha_converter)
    ELSE ConvertFirst(value, hrasva_converter)

\* DataOperator.__call__
DataOperator_call(op, state, index, locus) ==
    LET cur == Item(state, index)
        input == cur.data.value
        output == DataOperator_body(op, input)
    IN  IF input = <<>> THEN state
        ELSE IF output # input
             THEN State_swap(state, index, Upadesha_set_at(cur, locus, output))
             ELSE state

(***************************************************************************)
(* operators.py: tasya.  A sthani is a string, ("str", letters), or an     *)
(* upadesha, ("upa", term); a call returns ("ok", state) or raises,        *)
(* ("raise", exception).                                                   *)
(***************************************************************************)
\* Python slices of a string: s[:-i], s[-i:] and s[1:].
Upto(s, i) == IF i = 0 THEN <<>> ELSE SubSeq(s, 1, Len(s) - i)
From(s, i) == IF i = 0 THEN s ELSE SubSeq(s, Len(s) - i + 1, Len(s))
Rest(s) == SubSeq(s, 2, Len(s))

\* The i the loop 'for i, L in enumerate(reversed(term_value))' ends with:
\* the place of the last vowel counted from the end, from 0, or that of the
\* first letter where there is no vowel.
LoopIndex(term_value) ==
    LET found == {i \in 0..(Len(term_value) - 1) :
                     term_value[Len(term_value) - i] \in Sounds_ac}
    IN  IF found = {} THEN Len(term_value) - 1
        ELSE CHOOSE i \in found : \A j \in found : i <= j

\* 1.1.47: term_value[:-i] + sthani.value + term_value[-i:]
Tasya_mit(term_value, value) ==
    Upto(term_value, LoopIndex(term_value)) \o value
        \o From(term_value, LoopIndex(term_value))

\* Upadesha.add_part(raw): the parts of a term are none of the fields
\* data, samjna, lakshana and ops kept here.
Upadesha_add_part(self, raw) == self

\* The new value the branches of func compute, in a tuple with add_part,
\* <<>> where every branch is passed by, or the name of what is raised.
Tasya_new_value(what, adi, term_value) ==
    LET value == IF what[1] = "str" THEN what[2] ELSE what[2].data.value
        tags == IF what[1] = "str" THEN {} ELSE what[2].samjna
    IN  IF adi THEN <<value \o Rest(term_value), FALSE>>
        ELSE IF what[1] = "str"
        THEN IF Len(value) <= 1
             THEN <<Upto(term_value, 1) \o value, FALSE>>
             ELSE <<value, FALSE>>
        ELSE IF "mit" \in tags
        THEN IF term_value = <<>> THEN <<"UnboundLocalError">>
             ELSE <<Tasya_mit(term_value, value), TRUE>>
        ELSE IF "kit" \in tags THEN <<term_value \o value, TRUE>>
        ELSE IF "wit" \in tags THEN <<value \o term_value, TRUE>>
        ELSE IF Len(value) = 1 \/ "Nit" \in tags
        THEN <<Upto(term_value, 1) \o value, FALSE>>
        ELSE IF "Sit" \in tags \/ Len(value) > 1 THEN <<value, FALSE>>
        ELSE <<>>

\* func(state, index, locus) of tasya(sthani, adi)
Tasya_func(what, adi, state, index, locus) ==
    LET term == Item(state, index)
        new == Tasya_new_value(what, adi, Upadesha_get_at(term, locus))
    IN  IF new = <<>> THEN <<"raise", "NotImplementedError">>
        ELSE IF Len(new) = 1 THEN <<"raise", new[1]>>
        ELSE LET new_term == Upadesha_set_at(term, locus, new[1])
             IN  <<"ok", State_swap(state, index,
                                    IF new[2]
                                    THEN Upadesha_add_part(new_term, what[2].data.raw)
                                    ELSE new_term)>>

\* tasya(sthani, adi) for an upadesha sthani, as an operator of a rule.
tasya(sthani_term, adi) ==
    [term |-> <<sthani_term>>, category |-> "tasya",
     params |-> IF adi THEN {"adi"} ELSE {}]

\* Whether Operator.__call__ raises: the body of a tasya operator does where
\* func does.
Operator_raises(op, state, index, locus) ==
    /\ op.category = "tasya"
    /\ Tasya_func(<<"upa", op.term[1]>>, "adi" \in op.params,
                  state, index, locus)[1] = "raise"

\* Operator.__call__ with the bodies of add_samjna, insert and tasya (what
\* is returned where nothing is raised).
Operator_call(op, state, index, locus) ==
    CASE op.category = "add_samjna" ->
            State_swap(state, index,
                       Upadesha_add_samjna(Item(state, index), op.params))
      [] op.category = "insert" -> State_insert(state, index, op.term[1])
      [] op.category = "tasya" ->
            IF Operator_raises(op, state, index, locus) THEN state
            ELSE Tasya_func(<<"upa", op.term[1]>>, "adi" \in op.params,
                            state, index, locus)[2]
      [] OTHER -> DataOperator_call(op, state, index, locus)

(***************************************************************************)
(* rules.py: Rule.  A rule is a record                                     *)
(*   cls (the module of its class: "rules" or "templates"), name, window   *)
(*   (left, center, right lists of filters), operator, modifier (the name  *)
(*   of the wrapper class or "none"), optional, locus, rank, utsarga.      *)
(***************************************************************************)
\* self.filters = [x for items in window for x in items]
Rule_filters(rule) == Flatten(rule.window)

\* self.offset = len(self.window[0])
Rule_offset(rule) == Len(rule.window[1])

\* new.mark_rule(self, index), then new.swap(index, new[index].add_op(*utsarga))
Rule_stamp(rule, new, index) ==
    LET marked == State_mark_rule(new, rule.name, index)
    IN  State_swap(marked, index,
                   Upadesha_add_op(Item(marked, index), rule.utsarga))

\* Rule._apply_option_declined
Rule__apply_option_declined(rule, state, index) ==
    LET result ==
            IF rule.operator.category = "add_samjna"
            THEN State_swap(state, index,
                    Upadesha_remove_samjna(Item(state, index),
                                           rule.operator.params))
            ELSE state
    IN  State_mark_rule(result, rule.name, index)

\* A mutant of Rule.apply: a mandatory rule yields its result also when
\* the operator left the state unchanged.
Rule_apply_always(rule, state, index) ==
    LET declined == IF rule.optional
                    THEN <<Rule__apply_option_declined(rule, state, index)>>
                    ELSE <<>>
    IN  IF rule.modifier = "Na"
        THEN declined \o <<Rule_stamp(rule, state, index)>>
        ELSE declined \o
             <<Rule_stamp(rule,
                  Operator_call(rule.operator, state,
                                index + Rule_offset(rule), rule.locus), index)>>

\* A mutant of Rule.apply: a blocking-only rule records itself in the
\* history but does not stamp its utsarga rules.
Rule_apply_na_unstamped(rule, state, index) ==
    LET declined == IF rule.optional
                    THEN <<Rule__apply_option_declined(rule, state, index)>>
                    ELSE <<>>
        new == Operator_call(rule.operator, state,
                             index + Rule_offset(rule), rule.locus)
    IN  IF rule.modifier = "Na"
        THEN declined \o <<State_mark_rule(state, rule.name, index)>>
        ELSE IF ~State_eq(new, state) \/ rule.optional
             THEN declined \o <<Rule_stamp(rule, new, index)>>
             ELSE declined

\* Rule.apply: the successors in the order they are yielded.
Rule_apply(rule, state, index) ==
    LET declined == IF rule.optional
                    THEN <<Rule__apply_option_declined(rule, state, index)>>
                    ELSE <<>>
        new == Operator_call(rule.operator, state,
                             index + Rule_offset(rule), rule.locus)
    IN  IF rule.modifier = "Na"
        THEN declined \o <<Rule_stamp(rule, state, index)>>
        ELSE IF ~State_eq(new, state) \/ rule.optional
             THEN declined \o <<Rule_stamp(rule, new, index)>>
             ELSE declined

\* Rule.apply of templates.py, the class of the rules templates.inherit
\* registers: declining only marks the rule, and an accepted option is
\* yielded only when the operator changed the state.
templates_Rule_apply(rule, state, index) ==
    LET declined == IF rule.optional
                    THEN <<State_mark_rule(state, rule.name, index)>>
                    ELSE <<>>
        new == Operator_call(rule.operator, state,
                             index + Rule_offset(rule), rule.locus)
    IN  IF rule.modifier = "Na"
        THEN declined \o <<Rule_stamp(rule, state, index)>>
        ELSE IF ~State_eq(new, state)
             THEN declined \o <<Rule_stamp(rule, new, index)>>
             ELSE declined

\* ra.apply(state, ia): the method of the rule's class.
ra_apply(ra, state, ia) ==
    IF ra.cls = "templates" THEN templates_Rule_apply(ra, state, ia)
    ELSE Rule_apply(ra, state, ia)

\* A mutant of ra_raises: the error of the operator is swallowed.
ra_raises_never(ra, state, ia) == FALSE

\* Whether list(ra.apply(state, ia)) raises: the operator is called unless
\* the rule only blocks.
ra_raises(ra, state, ia) ==
    /\ ra.modifier # "Na"
    /\ Operator_raises(ra.operator, state, ia + Rule_offset(ra), ra.locus)

\* Rule.features: pairs (filter, position in self.filters), 0-based.
Rule_features(rule) ==
    LET fs == Rule_filters(rule) IN
    UNION {{<<f, i - 1>> : f \in Filter_supersets(fs[i])} : i \in DOMAIN fs}

\* Rule.matches (templates.py): the filters hold one after the other
\* starting from state[index].
Rule_matches(rule, state, index) ==
    LET fs == Rule_filters(rule) IN
    \A i \in DOMAIN fs : Filter_call(fs[i], state, index + i - 1)

\* zip(self.filters, other.filters): as many pairs as the shorter list has.
ZipLen(a, b) == IF Len(a) < Len(b) THEN Len(a) ELSE Len(b)

\* Rule.has_apavada
Rule_has_apavada(self, other) ==
    LET f1 == Rule_filters(self)
        f2 == Rule_filters(other)
    IN  /\ self.name # other.name
        /\ \A k \in 1..ZipLen(f1, f2) : Filter_subset_of(f2[k], f1[k])
        /\ self.locus = other.locus
        /\ Operator_conflicts_with(self.operator, other.operator)

(***************************************************************************)
(* inference.create: for rules A, B with windows of the same size,         *)
(* B.utsarga holds A iff A.has_apavada(B).                                 *)
(***************************************************************************)
Inference_create(rs) ==
    [i \in DOMAIN rs |->
        [rs[i] EXCEPT !.utsarga =
            {rs[j].name : j \in {k \in DOMAIN rs :
                /\ Len(Rule_filters(rs[k])) = Len(Rule_filters(rs[i]))
                /\ Rule_has_apavada(rs[k], rs[i])}}]]

(***************************************************************************)
(* ashtadhyayi.py: RuleTree.  A tree is a record                           *)
(*   rules (the residual list, rule names) and features (a function from   *)
(*   features to subtrees).  Rules are given as a list of rule records.    *)
(***************************************************************************)
\* feature_map: feature -> the rules having it, in list order, for the
\* features not yet used.
FeatureMap(rs, used) ==
    LET feats == UNION {Rule_features(rs[k]) : k \in DOMAIN rs} \ used
    IN  [feat \in feats |->
            SelectSeq(rs, LAMBDA r : feat \in Rule_features(r))]

\* The rules appended to self.rules: those without an unused feature.
Residual(rs, used) ==
    LET left == SelectSeq(rs, LAMBDA r : Rule_features(r) \subseteq used)
    IN  [k \in DOMAIN left |-> left[k].name]

\* sorted(feature_map.iteritems(), key=-len): the orders of the buckets the
\* sort can produce.  The sort is stable over the iteration order of a
\* dict, which is not fixed, so buckets of the same size come in any order.
BucketOrders(fm) ==
    {o \in Perms(DOMAIN fm) :
        \A i, j \in DOMAIN o : i < j => Len(fm[o[i]]) >= Len(fm[o[j]])}

\* A mutant of unseen: the rules the earlier buckets took are not left out.
Unseen_all(fm, o, k) == fm[o[k]]

\* unseen = [r for r in rule_list if r not in seen] for the k-th bucket
Unseen(fm, o, k) ==
    SelectSeq(fm[o[k]],
              LAMBDA r : \A j \in 1..(k - 1) : r \notin Range(fm[o[j]]))

\* The buckets that get a subtree, with the rules of each.
Children(fm, o) ==
    LET kept == {k \in DOMAIN o : Unseen(fm, o, k) # <<>>}
    IN  [feat \in {o[k] : k \in kept} |->
            Unseen(fm, o, CHOOSE k \in kept : o[k] = feat)]

\* RuleTree.__init__: the trees construction can produce.
RECURSIVE RuleTrees(_, _)
RuleTrees(rs, used) ==
    LET fm == FeatureMap(rs, used)
        parts == {Children(fm, o) : o \in BucketOrders(fm)}
        Sub(part) == [feat \in DOMAIN part |->
                         RuleTrees(part[feat], used \cup {feat})]
        Choices(part) ==
            LET sub == Sub(part) IN
            {g \in [DOMAIN part -> UNION {sub[feat] : feat \in DOMAIN part}] :
                \A feat \in DOMAIN part : g[feat] \in sub[feat]}
    IN  UNION {{[rules |-> Residual(rs, used), features |-> g] :
                    g \in Choices(part)} : part \in parts}

\* RuleTree.__len__
RECURSIVE RuleTree_len(_)
RuleTree_len(tree) ==
    LET ks == DOMAIN tree.features
        RECURSIVE Sum(_)
        Sum(S) == IF S = {} THEN 0
                  ELSE LET x == CHOOSE x \in S : TRUE
                       IN  RuleTree_len(tree.features[x]) + Sum(S \ {x})
    IN  Len(tree.rules) + Sum(ks)

\* A mutant of select: the filter of a feature is tested at `index`
\* instead of index + i.
RECURSIVE RuleTree_select_no_offset(_, _, _)
RuleTree_select_no_offset(tree, state, index) ==
    Range(tree.rules) \cup
    UNION {IF index + feat[2] >= 0 /\ Filter_call(feat[1], state, index)
           THEN RuleTree_select_no_offset(tree.features[feat], state, index)
           ELSE {} : feat \in DOMAIN tree.features}

\* The rules stored in a tree, at any depth.
RECURSIVE Stored(_)
Stored(tree) ==
    Range(tree.rules) \cup
    UNION {Stored(tree.features[feat]) : feat \in DOMAIN tree.features}

\* A mutant of select: below a feature that holds, the whole subtree is
\* taken without a test of its own features.
RuleTree_select_shallow(tree, state, index) ==
    Range(tree.rules) \cup
    UNION {IF index + feat[2] >= 0
              /\ Filter_call(feat[1], state, index + feat[2])
           THEN Stored(tree.features[feat])
           ELSE {} : feat \in DOMAIN tree.features}

\* RuleTree.select
RECURSIVE RuleTree_select(_, _, _)
RuleTree_select(tree, state, index) ==
    Range(tree.rules) \cup
    UNION {IF index + feat[2] >= 0
              /\ Filter_call(feat[1], state, index + feat[2])
           THEN RuleTree_select(tree.features[feat], state, index)
           ELSE {} : feat \in DOMAIN tree.features}

(***************************************************************************)
(* ashtadhyayi.py: Ashtadhyayi.                                            *)
(***************************************************************************)
\* sorted(self.rules, cmp=lambda x, y: cmp(y.rank, x.rank)): a stable sort,
\* highest rank first.
RECURSIVE InsertRanked(_, _)
InsertRanked(sorted, r) ==
    IF sorted = <<>> THEN <<r>>
    ELSE IF Head(sorted).rank >= r.rank
         THEN <<Head(sorted)>> \o InsertRanked(Tail(sorted), r)
         ELSE <<r>> \o sorted

RECURSIVE SortRanked(_)
SortRanked(rs) ==
    IF rs = <<>> THEN <<>>
    ELSE InsertRanked(SortRanked(SubSeq(rs, 1, Len(rs) - 1)), rs[Len(rs)])

RuleNamed(name) == CHOOSE r \in Range(rules) : r.name = name

\* candidates = [self.rule_tree.select(state, i) for i in state_indices]
Candidates(state) ==
    [i \in 1..StateLen(state) |-> RuleTree_select(rule_tree, state, i - 1)]

\* A mutant of matching_rules: positions in the outer loop, rules in the
\* inner loop.
Ashtadhyayi_matching_rules_by_position(state) ==
    LET n == StateLen(state)
        cand == Candidates(state)
        AtIndex(i) ==
            LET all == [k \in DOMAIN ranked_rules |-> <<ranked_rules[k].name, i - 1>>]
            IN  SelectSeq(all, LAMBDA pr : pr[1] \in cand[i])
    IN  Flatten([i \in 1..n |-> AtIndex(i)])

\* Ashtadhyayi.matching_rules: the pairs (rule, index) in the order they
\* are yielded.
Ashtadhyayi_matching_rules(state) ==
    LET n == StateLen(state)
        cand == Candidates(state)
        OfRule(ra) ==
            LET all == [i \in 1..n |-> <<ra.name, i - 1>>]
            IN  SelectSeq(all, LAMBDA pr : pr[1] \in cand[pr[2] + 1])
    IN  Flatten([k \in DOMAIN ranked_rules |-> OfRule(ranked_rules[k])])

NoRule == [index |-> -1, rule |-> "none", states |-> <<>>]

\* A mutant of the loop of apply_next_rule: a rule found in the ops of the
\* term is applied all the same.
RECURSIVE FirstYielding_unskipped(_, _, _)
FirstYielding_unskipped(state, pairs, k) ==
    IF k > Len(pairs) THEN NoRule
    ELSE LET ra_states == ra_apply(RuleNamed(pairs[k][1]), state, pairs[k][2])
         IN  IF ra_states = <<>>
             THEN FirstYielding_unskipped(state, pairs, k + 1)
             ELSE [index |-> pairs[k][2], rule |-> pairs[k][1],
                   states |-> ra_states]

\* The loop of apply_next_rule over the pairs of matching_rules, from the
\* k-th pair on; ra_states is list(ra.apply(state, ia)), computed once.
RECURSIVE FirstYielding(_, _, _)
FirstYielding(state, pairs, k) ==
    IF k > Len(pairs) THEN NoRule
    ELSE IF pairs[k][1] \in Item(state, pairs[k][2]).ops
         THEN FirstYielding(state, pairs, k + 1)
         ELSE CHOOSE returned \in
                  {IF ra_states = <<>>
                   THEN FirstYielding(state, pairs, k + 1)
                   ELSE [index |-> pairs[k][2], rule |-> pairs[k][1],
                         states |-> ra_states] :
                      ra_states \in {ra_apply(RuleNamed(pairs[k][1]), state,
                                              pairs[k][2])}} : TRUE

\* Ashtadhyayi.apply_next_rule: the rule applied, its index and the states
\* returned (NoRule for None); the pairs are generated once.
Ashtadhyayi_apply_next_rule(state) ==
    CHOOSE returned \in
        {FirstYielding(state, pairs, 1) :
            pairs \in {Ashtadhyayi_matching_rules(state)}} : TRUE

\* Whether the loop of apply_next_rule, from the k-th pair on, raises
\* before it returns: nothing in it catches what ra.apply raises.
RECURSIVE FirstRaising(_, _, _)
FirstRaising(state, pairs, k) ==
    IF k > Len(pairs) THEN FALSE
    ELSE IF pairs[k][1] \in Item(state, pairs[k][2]).ops
         THEN FirstRaising(state, pairs, k + 1)
         ELSE IF ra_raises(RuleNamed(pairs[k][1]), state, pairs[k][2])
              THEN TRUE
              ELSE /\ ra_apply(RuleNamed(pairs[k][1]), state,
                               pairs[k][2]) = <<>>
                   /\ FirstRaising(state, pairs, k + 1)

\* Whether apply_next_rule(state) raises; the pairs are generated once,
\* and the loop is followed only where some pair can raise.
Ashtadhyayi_apply_next_rule_raises(state) ==
    \E pairs \in {Ashtadhyayi_matching_rules(state)} :
        /\ \E k \in DOMAIN pairs :
               ra_raises(RuleNamed(pairs[k][1]), state, pairs[k][2])
        /\ FirstRaising(state, pairs, 1)

\* Ashtadhyayi.sandhi_asiddha: the surface forms of a terminal state.
Ashtadhyayi_sandhi_asiddha(state) ==
    << Flatten([k \in DOMAIN state.items |-> state.items[k].data.asiddha]) >>

(***************************************************************************)
(* Inputs: a catalogue of rules in the shape templates.process_tuples and  *)
(* Rule.__init__ give them (a blocking-only rule is never optional), and   *)
(* the sequences derive is called with.                                    *)
(***************************************************************************)
F_dhatu == samjna(<<"dhatu">>)
F_tin == samjna(<<"tin">>)
F_kit == samjna(<<"kit">>)
F_pit == samjna(<<"pit">>)
F_Nit == samjna(<<"Nit">>)

NewRule(cls, name, window, operator, modifier, optional, rank) ==
    [locus |-> "value", name |-> name, window |-> window, utsarga |-> {},
     operator |-> operator, optional |-> optional, modifier |-> modifier,
     cls |-> cls, rank |-> rank]

Str(raw, clean, tags) == Upadesha(DataSpace(raw, clean), tags)

Sap == Str(<<"S", "a", "p">>, <<"a">>, {"pratyaya", "Sit", "pit"})

F_tin_or_sup == or_(<<F_tin, samjna(<<"sup">>)>>)

Catalogue ==
    << NewRule("templates", "r1", << <<>>, <<F_dhatu>>, <<>> >>,
               dirgha, "none", FALSE, 1),
       NewRule("rules", "r2", << <<>>, <<and_(<<F_dhatu, F_kit>>)>>, <<>> >>,
               hrasva, "none", FALSE, 2),
       NewRule("rules", "r3", << <<>>, <<F_tin_or_sup>>, <<>> >>,
               add_samjna({"Nit"}), "Anyatarasyam", TRUE, 3),
       NewRule("rules", "r4", << <<>>, <<and_(<<F_tin_or_sup, F_pit>>)>>, <<>> >>,
               add_samjna({"Nit"}), "Na", FALSE, 4),
       NewRule("templates", "r5", << <<F_dhatu>>, <<F_tin>>, <<>> >>,
               dirgha, "none", FALSE, 2),
       NewRule("rules", "r6", << <<and_(<<F_dhatu, F_kit>>)>>, <<F_tin>>, <<>> >>,
               hrasva, "none", FALSE, 5),
       NewRule("templates", "r7", << <<F_dhatu>>, <<>>, <<F_tin>> >>,
               insert(Sap), "none", FALSE, 3),
       NewRule("rules", "r8", << <<>>, <<F_dhatu>>, <<>> >>,
               dirgha, "Anyatarasyam", TRUE, 1),
       NewRule("templates", "r9", << <<>>, <<F_tin_or_sup>>, <<>> >>,
               add_samjna({"Nit"}), "Va", TRUE, 3),
       NewRule("rules", "r10",
               << <<>>, <<and_(<<F_dhatu, F_Nit, not_(F_kit)>>)>>, <<>> >>,
               add_samjna({"Nit", "kit"}), "Vibhasha", TRUE, 6) >>

\* The rule sets: the rules of the catalogue at the chosen places, in the
\* catalogue's order.
RuleSets ==
    {SelectSeq(Catalogue, LAMBDA r : r.name \in {Catalogue[k].name : k \in S}) :
        S \in {T \in SUBSET DOMAIN Catalogue :
                 Cardinality(T) >= 1 /\ Cardinality(T) <= MaxRules}}

InitialSequences ==
    { << Str(<<"B", "u">>, <<"B", "u">>, {"dhatu"}),
         Str(<<"t", "i", "p">>, <<"t", "i">>, {"tin", "pit"}) >>,
      << Str(<<"B", "U">>, <<"B", "U">>, {"dhatu", "kit"}),
         Str(<<"t", "A", "m">>, <<"t", "A", "m">>, {"tin"}) >>,
      << Str(<<"B", "u">>, <<"B", "u">>, {"dhatu", "kit"}) >>,
      << Str(<<"t", "i">>, <<"t", "i">>, {"tin", "Nit"}) >>,
      << Str(<<"B", "u">>, <<"B", "u">>, {"dhatu", "Nit"}) >> }

(***************************************************************************)
(* The engine: construction, then derive as a generator.                   *)
(***************************************************************************)
NoStep == [blocked |-> {}, state |-> State(<<>>), index |-> -1,
           rule |-> "none", states |-> <<>>, turn |-> 0]

\* No method has been called on a State object.
NoCall == <<"none", 0, 0>>

\* No State object has been made.
StateIdle == lists = <<>> /\ objects = <<>> /\ call = NoCall

\* No upadesha is under edit.
TermIdle == upa = <<>> /\ held = {} /\ written = <<>>

\* No upadesha is under construction.
ParseIdle == given = <<>> /\ made = <<>> /\ again = <<>>

\* No operators are under comparison.
OpIdle == pair = <<>> /\ verdict = <<>>

\* No Dhatupatha has been read.
DhatuIdle ==
    all_dhatu = <<>> /\ gana_map = <<>> /\ asked = <<>> /\ answer = <<>>

\* No rule block is under expansion.
TemplateIdle ==
    /\ base = <<>>
    /\ prev_filters = <<>>
    /\ prev_operator = "None"
    /\ tuple_in = <<>>
    /\ tuple_out = <<>>
    /\ recent = <<>>

\* No tasya operator has been made.
TasyaIdle == sthani = <<>> /\ host = <<>> /\ replaced = <<>>

\* select has not been called on its own.
SelectIdle == probe = <<>> /\ selection = <<>>

LaterIdle == TemplateIdle /\ TasyaIdle /\ SelectIdle

OthersIdle ==
    StateIdle /\ TermIdle /\ ParseIdle /\ OpIdle /\ DhatuIdle /\ LaterIdle

\* Ashtadhyayi.__init__
Init ==
    /\ \E rs \in RuleSets : rules = Inference_create(rs)
    /\ ranked_rules = SortRanked(rules)
    /\ rule_tree \in RuleTrees(ranked_rules, {})
    /\ pc = "idle"
    /\ stack = <<>>
    /\ blocked = <<>>
    /\ emitted = <<>>
    /\ step = NoStep
    /\ fa = allow_all
    /\ fb = allow_all
    /\ OthersIdle

\* derive(sequence) up to the loop: start = State(sequence); stack = [start]
DeriveStart ==
    /\ pc = "idle"
    /\ rules # <<>>
    /\ \E sequence \in InitialSequences : stack' = <<State(sequence)>>
    /\ blocked' = << {} >>
    /\ pc' = "running"
    /\ UNCHANGED <<rules, ranked_rules, rule_tree, emitted, step, fa, fb,
                   others>>

\* Where list.insert put the term when the states are those of an insert
\* rule, else -1.
InsertedAt(rule, state, index) ==
    IF rule.operator.category = "insert" /\ rule.modifier # "Na"
    THEN LET p == index + Rule_offset(rule) IN
         IF p > StateLen(state) THEN StateLen(state) ELSE p
    ELSE -1

\* The position in the predecessor of the term at position k of the k-th
\* successor (-1 for an inserted term).
Origin(rule, state, index, accepted, k) ==
    LET p == InsertedAt(rule, state, index) IN
    IF ~accepted \/ p < 0 \/ k < p THEN k
    ELSE IF k = p THEN -1 ELSE k - 1

\* Whether the n-th state yielded by rule.apply is the accepted one.
IsAccepted(rule, n) == rule.modifier # "Na" /\ (~rule.optional \/ n = 2)

\* The stamps a blocking-only rule left on the terms of the path, carried
\* to the n-th successor: pairs (position, rule).
BlockedAfter(old, rule, state, index, n) ==
    LET p == InsertedAt(rule, state, index)
        moved == IF IsAccepted(rule, n) /\ p >= 0
                 THEN {<<IF b[1] >= p THEN b[1] + 1 ELSE b[1], b[2]>> : b \in old}
                 ELSE old
    IN  IF rule.modifier = "Na" /\ (~rule.optional \/ n = 2)
        THEN moved \cup {<<index, u>> : u \in rule.utsarga}
        ELSE moved

\* A mutant of stack.extend: only the last of the new states is kept.
Stack_extend_last(rest, new_states) ==
    rest \o <<new_states[Len(new_states)]>>

\* stack.extend(new_states) on the stack left by stack.pop()
Stack_extend(rest, new_states) == rest \o new_states

\* One iteration of derive's loop in which apply_next_rule returns states:
\* state = stack.pop(); stack.extend(new_states)
DerivePush ==
    /\ pc = "running"
    /\ stack # <<>>
    /\ \E state \in {stack[Len(stack)]} :
       \E new \in {Ashtadhyayi_apply_next_rule(state)} :
           /\ new.states # <<>>
           /\ ~Ashtadhyayi_apply_next_rule_raises(state)
           /\ Len(stack) - 1 + Len(new.states) <= MaxStack
           /\ stack' = Stack_extend(SubSeq(stack, 1, Len(stack) - 1),
                                    new.states)
           /\ blocked' = SubSeq(blocked, 1, Len(stack) - 1) \o
                  [n \in DOMAIN new.states |->
                      BlockedAfter(blocked[Len(stack)], RuleNamed(new.rule),
                                   state, new.index, n)]
           /\ step' = [blocked |-> blocked[Len(stack)], state |-> state,
                       index |-> new.index, rule |-> new.rule,
                       states |-> new.states, turn |-> 1 - step.turn]
    /\ UNCHANGED <<rules, ranked_rules, rule_tree, pc, emitted, fa, fb,
                   others>>

\* The forms yielded so far; the model keeps the first MaxEmit of them.
Yielded(forms) ==
    IF Len(forms) > MaxEmit THEN SubSeq(forms, 1, MaxEmit) ELSE forms

\* One iteration in which apply_next_rule returns None: the state is final
\* and its forms are yielded.
DeriveEmit ==
    /\ pc = "running"
    /\ stack # <<>>
    /\ \E state \in {stack[Len(stack)]} :
           /\ Ashtadhyayi_apply_next_rule(state).states = <<>>
           /\ ~Ashtadhyayi_apply_next_rule_raises(state)
           /\ stack' = SubSeq(stack, 1, Len(stack) - 1)
           /\ blocked' = SubSeq(blocked, 1, Len(stack) - 1)
           /\ emitted' = Yielded(emitted \o Ashtadhyayi_sandhi_asiddha(state))
           /\ step' = [blocked |-> blocked[Len(stack)], state |-> state,
                       index |-> -1, rule |-> "none",
                       states |-> <<>>, turn |-> 1 - step.turn]
    /\ UNCHANGED <<rules, ranked_rules, rule_tree, pc, fa, fb, others>>

\* `while stack` ends: the generator is exhausted.
DeriveReturn ==
    /\ pc = "running"
    /\ stack = <<>>
    /\ pc' = "done"
    /\ UNCHANGED <<rules, ranked_rules, rule_tree, stack, blocked, emitted,
                   step, fa, fb, others>>

\* One iteration in which apply_next_rule raises: derive catches nothing,
\* so the generator ends with the error and its stack is gone; what it
\* yielded before stays with the caller.
DeriveRaise ==
    /\ pc = "running"
    /\ stack # <<>>
    /\ \E state \in {stack[Len(stack)]} :
           /\ Ashtadhyayi_apply_next_rule_raises(state)
           /\ step' = [blocked |-> blocked[Len(stack)], state |-> state,
                       index |-> -1, rule |-> "none",
                       states |-> <<>>, turn |-> 1 - step.turn]
    /\ stack' = <<>>
    /\ blocked' = <<>>
    /\ pc' = "raised"
    /\ UNCHANGED <<rules, ranked_rules, rule_tree, emitted, fa, fb, others>>

\* derive(sequence) called on the engine once more, after a call that
\* returned or raised: a new generator with a stack of its own.
DeriveAgain ==
    /\ pc \in {"done", "raised"}
    /\ \E sequence \in InitialSequences : stack' = <<State(sequence)>>
    /\ blocked' = << {} >>
    /\ emitted' = <<>>
    /\ step' = NoStep
    /\ pc' = "running"
    /\ UNCHANGED <<rules, ranked_rules, rule_tree, fa, fb, others>>

Next == DeriveStart \/ DerivePush \/ DeriveEmit \/ DeriveReturn

Spec == Init /\ [][Next]_vars

\* derive runs in one thread that keeps taking the next form: every
\* iteration that can be taken is taken.
FairSpec == Spec /\ WF_vars(Next)

(***************************************************************************)
(* The filter algebra on its own: two filters are built from atomic        *)
(* filters with and_, or_ and not_ before any grammar is constructed.      *)
(***************************************************************************)
Atoms == {F_dhatu, F_kit}

RECURSIVE Nodes(_)
Nodes(f) ==
    IF f.members = <<>> THEN 1
    ELSE IF Len(f.members) = 1 THEN 1 + Nodes(f.members[1])
    ELSE 1 + Nodes(f.members[1]) + Nodes(f.members[2])

\* The filters a filter is built from, itself included.
RECURSIVE SubFilters(_)
SubFilters(f) ==
    {f} \cup UNION {SubFilters(f.members[k]) : k \in DOMAIN f.members}

\* The filters at hand for a comparison with fa and fb.
Others == SubFilters(fa) \cup SubFilters(fb) \cup Atoms \cup {allow_all}

EmptyTree == [rules |-> <<>>, features |-> <<>>]

FilterInit ==
    /\ rules = <<>>
    /\ ranked_rules = <<>>
    /\ rule_tree = EmptyTree
    /\ pc = "idle"
    /\ stack = <<>>
    /\ blocked = <<>>
    /\ emitted = <<>>
    /\ step = NoStep
    /\ fa \in Atoms \cup {allow_all}
    /\ fb \in Atoms \cup {allow_all}
    /\ OthersIdle

\* fa is bound to a new filter of at most MaxNodes nodes, or fb to one of
\* at most MaxNodes - 2 nodes.
Bind(f) ==
    /\ \/ Nodes(f) <= MaxNodes /\ fa' = f /\ fb' = fb
       \/ Nodes(f) <= MaxNodes - 2 /\ fb' = f /\ fa' = fa
    /\ UNCHANGED <<rules, ranked_rules, rule_tree, pc, stack, blocked,
                   emitted, step, others>>

Operands == {fa, fb} \cup Atoms

\* a filter named afresh: samjna(name)
FilterAtom == \E f \in Atoms : Bind(samjna(f.names))

\* and_(l, r), also written l & r
FilterAnd == \E l, r \in Operands : Bind(and_(<<l, r>>))

\* or_(l, r), also written l | r
FilterOr == \E l, r \in Operands : Bind(or_(<<l, r>>))

\* not_(f), also written ~f
FilterNot == \E f \in Operands : Bind(not_(f))

FilterNext == FilterAtom \/ FilterAnd \/ FilterOr \/ FilterNot

FilterSpec == FilterInit /\ [][FilterNext]_vars

(***************************************************************************)
(* util.py: State as a Python object.  A State holds the addresses of two  *)
(* lists; `lists` maps an address to the list's contents, so a write       *)
(* through one State is seen by every State holding the same address.      *)
(* A term is named by a string, a rule by its name ("None" for None).      *)
(***************************************************************************)
\* The engine has not been constructed and no filter is under comparison.
EngineIdle ==
    /\ rules = <<>>
    /\ ranked_rules = <<>>
    /\ rule_tree = EmptyTree
    /\ pc = "idle"
    /\ stack = <<>>
    /\ blocked = <<>>
    /\ emitted = <<>>
    /\ step = NoStep
    /\ fa = allow_all
    /\ fb = allow_all

Terms == {"Bu", "tip"}

RuleArgs == {"None", "r1"}

\* The lists of at most n terms.
RECURSIVE ItemLists(_)
ItemLists(n) ==
    IF n = 0 THEN {<<>>}
    ELSE ItemLists(n - 1) \cup
         {Append(l, t) : l \in {m \in ItemLists(n - 1) : Len(m) = n - 1},
                         t \in Terms}

\* The State an object is: the contents of its two lists.
Deref(ls, obj) == [items |-> ls[obj.items], history |-> ls[obj.history]]

\* The lists after the lists of the State `new` are written through obj.
Store(ls, obj, new) ==
    [a \in DOMAIN ls |->
        IF a = obj.history THEN new.history
        ELSE IF a = obj.items THEN new.items
        ELSE ls[a]]

\* A mutant of State.copy: the copy holds the receiver's own lists.
State_copy_shared(ls, self) == <<ls, self>>

\* State.copy: State(self.items[:], self.history[:]), two new lists (an
\* empty history[:] is falsy and State.__init__ makes a new list for it).
\* The result is the lists and the new object.
State_copy(ls, self) ==
    << ls \o <<ls[self.items], ls[self.history]>>,
       [items |-> Len(ls) + 1, history |-> Len(ls) + 2] >>

\* c._push_rule(rule, index) when rule is not None
PushIfRule(state, rule, index) ==
    IF rule = "None" THEN state ELSE State_mark_rule(state, rule, index)

\* State.remove(index) on the contents: items.pop(index)
State_remove(state, index) ==
    [state EXCEPT !.items =
        SubSeq(@, 1, index) \o SubSeq(@, index + 2, Len(@))]

\* The methods on objects: c = self.copy(), the write through c, return c.
State_insert_obj(ls, self, index, item, rule) ==
    LET c == State_copy(ls, self) IN
    << Store(c[1], c[2],
             PushIfRule(State_insert(Deref(c[1], c[2]), index, item),
                        rule, index)),
       c[2] >>

State_mark_rule_obj(ls, self, rule, index) ==
    LET c == State_copy(ls, self) IN
    << Store(c[1], c[2], State_mark_rule(Deref(c[1], c[2]), rule, index)),
       c[2] >>

State_remove_obj(ls, self, index) ==
    LET c == State_copy(ls, self) IN
    << Store(c[1], c[2], State_remove(Deref(c[1], c[2]), index)), c[2] >>

\* State.replace_all(items): c.items = items, the caller's list, which the
\* model takes to be a list no State holds yet.
State_replace_all_obj(ls, self, items) ==
    LET c == State_copy(ls, self) IN
    << c[1] \o <<items>>, [c[2] EXCEPT !.items = Len(c[1]) + 1] >>

State_swap_obj(ls, self, index, item, rule) ==
    LET c == State_copy(ls, self) IN
    << Store(c[1], c[2],
             PushIfRule(State_swap(Deref(c[1], c[2]), index, item),
                        rule, index)),
       c[2] >>

\* State(items): the object holds the caller's list and a new history.
StateInit ==
    /\ EngineIdle
    /\ \E items \in ItemLists(MaxItems) : lists = <<items, <<>>>>
    /\ objects = << [items |-> 1, history |-> 2] >>
    /\ call = NoCall
    /\ TermIdle
    /\ ParseIdle
    /\ OpIdle
    /\ DhatuIdle
    /\ LaterIdle

\* The method returned: its result is one more object.
Returned(result, method, self, index) ==
    /\ lists' = result[1]
    /\ objects' = Append(objects, result[2])
    /\ call' = <<method, self, index>>
    /\ UNCHANGED <<rules, ranked_rules, rule_tree, pc, stack, blocked,
                   emitted, step, fa, fb, termVars, parseVars, opVars,
                   dhatuVars, later>>

CallInsert ==
    /\ Len(objects) < MaxObjects
    /\ \E self \in DOMAIN objects, item \in Terms, rule \in RuleArgs :
       \E index \in 0..Len(lists[objects[self].items]) + 1 :
           Returned(State_insert_obj(lists, objects[self], index, item, rule),
                    "insert", self, index)

CallMarkRule ==
    /\ Len(objects) < MaxObjects
    /\ \E self \in DOMAIN objects :
       \E index \in 0..Len(lists[objects[self].items]) :
           Returned(State_mark_rule_obj(lists, objects[self], "r1", index),
                    "mark_rule", self, index)

\* list.pop raises IndexError outside the list: no State is returned.
CallRemove ==
    /\ Len(objects) < MaxObjects
    /\ \E self \in DOMAIN objects :
       \E index \in 0..Len(lists[objects[self].items]) - 1 :
           Returned(State_remove_obj(lists, objects[self], index),
                    "remove", self, index)

CallReplaceAll ==
    /\ Len(objects) < MaxObjects
    /\ \E self \in DOMAIN objects, items \in ItemLists(MaxItems) :
           Returned(State_replace_all_obj(lists, objects[self], items),
                    "replace_all", self, 0)

\* Item assignment raises IndexError outside the list.
CallSwap ==
    /\ Len(objects) < MaxObjects
    /\ \E self \in DOMAIN objects, item \in Terms, rule \in RuleArgs :
       \E index \in 0..Len(lists[objects[self].items]) - 1 :
           Returned(State_swap_obj(lists, objects[self], index, item, rule),
                    "swap", self, index)

StateNext ==
    CallInsert \/ CallMarkRule \/ CallRemove \/ CallReplaceAll \/ CallSwap

StateSpec == StateInit /\ [][StateNext]_vars

(***************************************************************************)
(* upadesha.py: an upadesha under edit.  It is constructed from a raw      *)
(* string, and set_raw, set_value, set_asiddhavat and DataSpace.replace    *)
(* with one field give the next one.                                       *)
(***************************************************************************)
TermRaws == { <<"l", "a", "~", "w">>, <<"t", "i", "p">>, <<"g", "a", "m">> }

\* The strings written to a layer, the empty string among them.
TermValues == { <<>>, <<"g", "a">>, <<"j", "a", "g">> }

TermInit ==
    /\ EngineIdle
    /\ StateIdle
    /\ ParseIdle
    /\ OpIdle
    /\ DhatuIdle
    /\ LaterIdle
    /\ \E raw \in TermRaws :
           /\ upa = Upadesha_raw(raw, {}, FALSE, FALSE, FALSE)
           /\ held = {raw}
    /\ written = <<>>

\* The frame of an edit of upa.
TermFrame ==
    UNCHANGED <<rules, ranked_rules, rule_tree, pc, stack, blocked, emitted,
                step, fa, fb, stateVars, parseVars, opVars, dhatuVars,
                later>>

\* upa = upa.set_raw(raw)
SetRaw ==
    /\ upa # <<>>
    /\ \E raw \in TermRaws :
           /\ upa' = Upadesha_set_raw(upa, raw)
           /\ held' = held \cup {raw}
           /\ written' = <<"raw", raw>>
    /\ TermFrame

\* upa = upa.set_value(value)
SetValue ==
    /\ upa # <<>>
    /\ \E value \in TermValues :
           /\ upa' = Upadesha_set_value(upa, value)
           /\ written' = <<"value", value>>
    /\ UNCHANGED held
    /\ TermFrame

\* upa = upa.set_asiddhavat(asiddhavat)
SetAsiddhavat ==
    /\ upa # <<>>
    /\ \E asiddhavat \in TermValues :
           /\ upa' = Upadesha_set_asiddhavat(upa, asiddhavat)
           /\ written' = <<"asiddhavat", asiddhavat>>
    /\ UNCHANGED held
    /\ TermFrame

\* upa = upa.copy(data=upa.data.replace(field=value)) for the layers that
\* have no setter of their own.
ReplaceField ==
    /\ upa # <<>>
    /\ \E field \in {"clean", "asiddha"}, value \in TermValues :
           /\ upa' = Upadesha_copy(upa,
                         <<DataSpace_replace(upa.data, (field :> value))>>,
                         {}, {}, {})
           /\ written' = <<field, value>>
    /\ UNCHANGED held
    /\ TermFrame

TermNext == SetRaw \/ SetValue \/ SetAsiddhavat \/ ReplaceField

TermSpec == TermInit /\ [][TermNext]_vars

(***************************************************************************)
(* upadesha.py: the construction of an upadesha from a raw string and the  *)
(* flags pratyaya, vibhakti and taddhita.                                  *)
(***************************************************************************)
Letters == {"a", "i", "k", "s", "r", "Y", "~", "^"}

\* The strings of exactly n letters.
RECURSIVE Strings(_)
Strings(n) ==
    IF n = 0 THEN {<<>>}
    ELSE {Append(l, t) : l \in Strings(n - 1), t \in Letters}

\* The strings the transliteration writes: a nasal mark follows its vowel
\* (or the accent of its vowel), an accent mark follows its vowel (or the
\* nasal mark of its vowel).
Transliterated(raw) ==
    \A k \in DOMAIN raw :
        /\ raw[k] = "~" =>
               /\ StripSvara(SubSeq(raw, 1, k - 1)) # <<>>
               /\ StripSvara(SubSeq(raw, 1, k - 1))
                        [Len(StripSvara(SubSeq(raw, 1, k - 1)))] \in Sounds_ac
        /\ raw[k] \in {"^", "\\"} =>
               /\ k > 1
               /\ raw[k - 1] \in Sounds_ac \cup {"~"}

\* The raw strings an upadesha is constructed from: _parse_it raises on a
\* string that is empty without its accent marks.
RawStrings(max) ==
    {raw \in UNION {Strings(n) : n \in 1..max} :
        /\ StripSvara(raw) # <<>>
        /\ Transliterated(raw)}

ParseInit ==
    /\ EngineIdle
    /\ StateIdle
    /\ TermIdle
    /\ OpIdle
    /\ DhatuIdle
    /\ LaterIdle
    /\ given \in RawStrings(MaxRaw) \X BOOLEAN \X BOOLEAN \X BOOLEAN
    /\ made = <<>>
    /\ again = <<>>

\* made = Upadesha(raw, pratyaya=..., vibhakti=..., taddhita=...)
Construct ==
    /\ given # <<>>
    /\ made = <<>>
    /\ made' = <<Upadesha_raw(given[1], {}, given[2], given[3], given[4])>>
    /\ UNCHANGED <<rules, ranked_rules, rule_tree, pc, stack, blocked,
                   emitted, step, fa, fb, stateVars, termVars, given,
                   again, opVars, dhatuVars, later>>

\* again = made._parse_it(made.clean, vibhakti=True): antya = clean[-1]
\* raises IndexError on the empty string.
Reparse ==
    /\ made # <<>>
    /\ again = <<>>
    /\ again' = IF made[1].data.clean = <<>>
                THEN << <<"raise", "IndexError">> >>
                ELSE << <<"ok", Upadesha__parse_it(made[1].data.clean,
                                                  FALSE, TRUE, FALSE)>> >>
    /\ UNCHANGED <<rules, ranked_rules, rule_tree, pc, stack, blocked,
                   emitted, step, fa, fb, stateVars, termVars, given,
                   made, opVars, dhatuVars, later>>

ParseNext == Construct \/ Reparse

ParseSpec == ParseInit /\ [][ParseNext]_vars

(***************************************************************************)
(* Conflicts between operators.                                            *)
(***************************************************************************)
\* The categories of the operators of operators.py: the name of the
\* function that makes the operator.
Categories ==
    {"add_samjna", "al_tasya", "insert", "replace", "tasya", "ti", "upadha",
     "yathasamkhya", "dirgha", "guna", "hrasva", "samprasarana", "vrddhi",
     "force_guna"}

\* Operator(name, body, category, params); two parameterized operators of
\* one category differ in their parameters.
Operators ==
    {[term |-> <<>>, category |-> c, params |-> {}] : c \in Categories}
        \cup {add_samjna({"kit"}), insert("tip")}

OperatorInit ==
    /\ EngineIdle
    /\ StateIdle
    /\ TermIdle
    /\ ParseIdle
    /\ DhatuIdle
    /\ LaterIdle
    /\ pair \in Operators \X Operators
    /\ verdict = <<>>

\* a.conflicts_with(b) and b.conflicts_with(a)
Conflicts ==
    /\ pair # <<>>
    /\ verdict = <<>>
    /\ verdict' = <<Operator_conflicts_with(pair[1], pair[2]),
                    Operator_conflicts_with(pair[2], pair[1])>>
    /\ UNCHANGED <<rules, ranked_rules, rule_tree, pc, stack, blocked,
                   emitted, step, fa, fb, stateVars, termVars, parseVars,
                   pair, dhatuVars, later>>

OperatorNext == Conflicts

OperatorSpec == OperatorInit /\ [][OperatorNext]_vars

(***************************************************************************)
(* The Dhatupatha.                                                         *)
(***************************************************************************)
\* The roots of the rows of a file.
Dhatus == {"BU", "eDa", "ad"}

\* The ganas of the rows of a file.
Ganas == {1, 2}

\* Dhatupatha.index_map[dhatu]: the rows of dhatu, first to last.
index_map(dhatu) == {i \in DOMAIN all_dhatu : all_dhatu[i] = dhatu}

\* index_map[dhatu][0]
First(dhatu) == CHOOSE i \in index_map(dhatu) : \A j \in index_map(dhatu) : i <= j

\* index_map[dhatu][-1]
Last(dhatu) == CHOOSE i \in index_map(dhatu) : \A j \in index_map(dhatu) : j <= i

\* Dhatupatha.init: the rows of the file, which lists the roots gana by
\* gana; a query names roots of the file (index_map[start][0] raises
\* IndexError for any other).
DhatuInit ==
    /\ EngineIdle
    /\ StateIdle
    /\ TermIdle
    /\ ParseIdle
    /\ OpIdle
    /\ LaterIdle
    /\ \E n \in 1..MaxRows :
          /\ all_dhatu \in [1..n -> Dhatus]
          /\ gana_map \in [1..n -> Ganas]
          /\ \A i \in 1..n, j \in 1..n : i <= j => gana_map[i] <= gana_map[j]
    /\ asked = <<>>
    /\ answer = <<>>

\* The rows from start_index on that the loop of dhatu_range appends: it
\* returns at the first row of another gana or at the end of the list.
GanaRun(start_index) ==
    LET gana == gana_map[start_index]
        stops == {i \in DOMAIN all_dhatu :
                     i >= start_index /\ gana_map[i] # gana}
        end_index == IF stops = {} THEN Len(all_dhatu) + 1
                     ELSE CHOOSE i \in stops : \A j \in stops : i <= j
    IN  SubSeq(all_dhatu, start_index, end_index - 1)

\* Dhatupatha.dhatu_range(start, end): rows are counted from 1 here, so
\* the slice all_dhatu[start_index:end_index] is the rows from First(start)
\* to the one before Last(end).
Dhatupatha_dhatu_range(start, end) ==
    IF end = "None" THEN GanaRun(First(start))
    ELSE SubSeq(all_dhatu, First(start), Last(end) - 1)

\* answer = dhatu_range(start, end)
DhatuRange ==
    /\ all_dhatu # <<>>
    /\ answer = <<>>
    /\ \E start \in Range(all_dhatu), end \in Range(all_dhatu) \cup {"None"} :
          /\ asked' = <<start, end>>
          /\ answer' = <<Dhatupatha_dhatu_range(start, end)>>
    /\ UNCHANGED <<rules, ranked_rules, rule_tree, pc, stack, blocked,
                   emitted, step, fa, fb, stateVars, termVars, parseVars,
                   opVars, all_dhatu, gana_map, later>>

DhatuNext == DhatuRange

DhatuSpec == DhatuInit /\ [][DhatuNext]_vars

(***************************************************************************)
(* templates.py: a rule block, its tuples expanded one after another.      *)
(***************************************************************************)
\* Python's None where a filter is expected.
NoFilter == [names |-> <<>>, kind |-> "None", members |-> <<>>]

\* filters.auto(data) for None and for a name of samjna_set.
auto(data) == IF data = "None" THEN allow_all ELSE samjna(<<data>>)

\* A mutant of generate_filter: True takes the base filter.
generate_filter_base(data, b, p) ==
    IF data = "None" \/ data = "True" THEN b
    ELSE IF b = NoFilter \/ b = allow_all THEN auto(data)
    ELSE and_(<<auto(data), b>>)

\* generate_filter(data, base, prev)
generate_filter(data, b, p) ==
    IF data = "None" THEN b
    ELSE IF data = "True" THEN p
    ELSE IF b = NoFilter \/ b = allow_all THEN auto(data)
    ELSE and_(<<auto(data), b>>)

\* The entries of a tuple rule: a window override is None, True or a name
\* for auto; an operator is True or what the rule class makes its operator
\* from; a tuple is bare or wrapped.
Overrides == {"None", "True", "kit"}
OperatorArgs == {"True", "dirgha", "hrasva"}
Wrappers == {"None", "Option"}
TupleNames == {"t1"}

\* inherit(*base): base = [F.auto(x) for x in base]; process_tuples starts
\* with prev = (None, None, None) and prev_operator = None.
TemplateInit ==
    /\ EngineIdle
    /\ StateIdle
    /\ TermIdle
    /\ ParseIdle
    /\ OpIdle
    /\ DhatuIdle
    /\ TasyaIdle
    /\ SelectIdle
    /\ base \in {<<auto(l), auto(c), auto("None")>> : l, c \in {"None", "dhatu"}}
    /\ prev_filters = <<NoFilter, NoFilter, NoFilter>>
    /\ prev_operator = "None"
    /\ tuple_in = <<>>
    /\ tuple_out = <<>>
    /\ recent = <<NoFilter, NoFilter, NoFilter, "None">>

\* One turn of the loop of process_tuples on the row
\* wrapper(name, left, center, right, operator).
ProcessTuple ==
    /\ base # <<>>
    /\ \E name \in TupleNames, wrapper \in Wrappers, operator \in OperatorArgs,
          window \in Overrides \X Overrides \X Overrides :
          LET filters == [k \in 1..3 |->
                            generate_filter(window[k], base[k], prev_filters[k])]
              op == IF operator = "True" THEN prev_operator ELSE operator
          IN  /\ tuple_in' = <<name, window[1], window[2], window[3],
                                operator, wrapper>>
              /\ tuple_out' = <<name, filters, op, wrapper = "Option", wrapper>>
              /\ prev_filters' = filters
              /\ prev_operator' = op
              /\ recent' = [k \in 1..4 |->
                              IF k = 4
                              THEN IF operator = "True" THEN recent[4] ELSE op
                              ELSE IF window[k] = "True" THEN recent[k]
                              ELSE filters[k]]
    /\ UNCHANGED <<rules, ranked_rules, rule_tree, pc, stack, blocked,
                   emitted, step, fa, fb, stateVars, termVars, parseVars,
                   opVars, dhatuVars, base, tasyaVars, selectVars>>

TemplateNext == ProcessTuple

TemplateSpec == TemplateInit /\ [][TemplateNext]_vars

(***************************************************************************)
(* A tasya operator on its own: it is made from a sthani and called on a   *)
(* state of one term.                                                      *)
(***************************************************************************)
\* The letters of the term values.
HostLetters == {"m", "u", "c"}

\* The terms a tasya operator is called on: values of up to MaxValue
\* letters.
Hosts ==
    {Str(v, v, {"dhatu"}) : v \in UNION {[1..n -> HostLetters] : n \in 0..MaxValue}}

\* The sthani arguments: strings, and upadeshas with and without the tags
\* mit, kit, wit and Nit.
Sthanis ==
    {<<"str", <<"a">>>>, <<"str", <<"t", "a">>>>}
        \cup {<<"upa", Upadesha_raw(raw, {}, FALSE, FALSE, FALSE)>> :
                 raw \in {<<"n", "u", "~", "m">>, <<"t", "u", "~", "k">>,
                          <<"n", "u", "~", "w">>, <<"a", "n", "a", "N">>,
                          <<"v", "a", "c">>, <<"a", "~">>}}

TasyaInit ==
    /\ EngineIdle
    /\ StateIdle
    /\ TermIdle
    /\ ParseIdle
    /\ OpIdle
    /\ DhatuIdle
    /\ TemplateIdle
    /\ SelectIdle
    /\ sthani \in Sthanis \X BOOLEAN
    /\ host \in {State(<<term>>) : term \in Hosts}
    /\ replaced = <<>>

\* replaced = tasya(sthani, adi)(host, 0, 'value')
TasyaCall ==
    /\ sthani # <<>>
    /\ replaced = <<>>
    /\ replaced' = <<Tasya_func(sthani[1], sthani[2], host, 0, "value")>>
    /\ UNCHANGED <<rules, ranked_rules, rule_tree, pc, stack, blocked,
                   emitted, step, fa, fb, stateVars, termVars, parseVars,
                   opVars, dhatuVars, tmplVars, selectVars, sthani, host>>

TasyaNext == TasyaCall

TasyaSpec == TasyaInit /\ [][TasyaNext]_vars

(***************************************************************************)
(* The engine with substitution rules, and a host that calls derive again  *)
(* after a call has returned or raised.                                    *)
(***************************************************************************)
\* The catalogue, and two rules with a tasya operator: the sthani of r13
\* has no letters left and no tag, that of r14 is one letter.
HostCatalogue ==
    Catalogue \o
    << NewRule("rules", "r13",
               << <<>>, <<and_(<<F_dhatu, not_(F_Nit)>>)>>, <<>> >>,
               tasya(Upadesha_raw(<<"a", "~">>, {}, FALSE, FALSE, FALSE),
                     FALSE),
               "none", FALSE, 1),
       NewRule("templates", "r14", << <<>>, <<F_dhatu>>, <<>> >>,
               tasya(Upadesha_raw(<<"a">>, {}, FALSE, FALSE, FALSE), FALSE),
               "none", FALSE, 2) >>

\* The rule sets with a substitution rule among them.
HostRuleSets ==
    {SelectSeq(HostCatalogue,
               LAMBDA r : r.name \in {HostCatalogue[k].name : k \in S}) :
        S \in {T \in SUBSET DOMAIN HostCatalogue :
                 /\ Cardinality(T) >= 1
                 /\ Cardinality(T) <= MaxRules
                 /\ \E k \in T : HostCatalogue[k].operator.category = "tasya"}}

HostInit ==
    /\ \E rs \in HostRuleSets : rules = Inference_create(rs)
    /\ ranked_rules = SortRanked(rules)
    /\ rule_tree \in RuleTrees(ranked_rules, {})
    /\ pc = "idle"
    /\ stack = <<>>
    /\ blocked = <<>>
    /\ emitted = <<>>
    /\ step = NoStep
    /\ fa = allow_all
    /\ fb = allow_all
    /\ OthersIdle

HostNext ==
    \/ DeriveStart
    \/ DerivePush
    \/ DeriveEmit
    \/ DeriveReturn
    \/ DeriveRaise
    \/ DeriveAgain

HostSpec == HostInit /\ [][HostNext]_vars

(***************************************************************************)
(* RuleTree.select on its own: a tree is built from up to two rules and    *)
(* select is called as matching_rules calls it, with an index of the       *)
(* state.                                                                  *)
(***************************************************************************)
\* The catalogue, and two rules whose second filter is a negation.
SelectCatalogue ==
    Catalogue \o
    << NewRule("rules", "r11", << <<F_dhatu>>, <<not_(F_kit)>>, <<>> >>,
               add_samjna({"Nit"}), "none", FALSE, 4),
       NewRule("templates", "r12", << <<>>, <<F_tin>>, <<not_(F_pit)>> >>,
               add_samjna({"kit"}), "none", FALSE, 4) >>

SelectRuleSets ==
    {SelectSeq(SelectCatalogue,
               LAMBDA r : r.name \in {SelectCatalogue[k].name : k \in S}) :
        S \in {T \in SUBSET DOMAIN SelectCatalogue :
                 Cardinality(T) >= 1 /\ Cardinality(T) < MaxRules}}

SelectInit ==
    /\ \E rs \in SelectRuleSets : rules = Inference_create(rs)
    /\ ranked_rules = SortRanked(rules)
    /\ rule_tree \in RuleTrees(ranked_rules, {})
    /\ pc = "idle"
    /\ stack = <<>>
    /\ blocked = <<>>
    /\ emitted = <<>>
    /\ step = NoStep
    /\ fa = allow_all
    /\ fb = allow_all
    /\ StateIdle
    /\ TermIdle
    /\ ParseIdle
    /\ OpIdle
    /\ DhatuIdle
    /\ TemplateIdle
    /\ TasyaIdle
    /\ probe \in {<<State(sequence), i>> :
                     sequence \in InitialSequences, i \in 0..1}
    /\ probe[2] < StateLen(probe[1])
    /\ selection = <<>>

\* selection = rule_tree.select(state, index)
Select ==
    /\ probe # <<>>
    /\ selection = <<>>
    /\ selection' = <<RuleTree_select(rule_tree, probe[1], probe[2])>>
    /\ UNCHANGED <<rules, ranked_rules, rule_tree, pc, stack, blocked,
                   emitted, step, fa, fb, stateVars, termVars, parseVars,
                   opVars, dhatuVars, tmplVars, tasyaVars, probe>>

SelectNext == Select

SelectSpec == SelectInit /\ [][SelectNext]_vars

(***************************************************************************)
(* Properties of the derivation driver.                                    *)
(***************************************************************************)
\* The last iteration applied a rule.
Applied == step.rule # "none"

StepRule == RuleNamed(step.rule)

\* The next iteration would push more states than the model's stack holds.
StackFull ==
    /\ pc = "running"
    /\ stack # <<>>
    /\ LET new == Ashtadhyayi_apply_next_rule(stack[Len(stack)])
       IN  Len(stack) - 1 + Len(new.states) > MaxStack

\* C1: derive terminates for every rule set and every initial sequence:
\* a running derivation reaches the end of its loop (runs the model cuts
\* short at a full stack are left aside).
C1_DeriveTerminates == (pc = "running") ~> (pc = "done" \/ StackFull)

\* C2: rule-tree soundness: for every rule and every (state, index) of a
\* pending state, if every filter of the rule's window holds at its position
\* starting from index, the rule is in rule_tree.select(state, index).
C2_RuleTreeSound ==
    \A k \in DOMAIN stack :
        \A i \in 0..(StateLen(stack[k]) - 1) :
            \A r \in Range(rules) :
                Rule_matches(r, stack[k], i) =>
                    r.name \in RuleTree_select(rule_tree, stack[k], i)

\* A rule with a window of two filters matches a pending state and is
\* selected from a tree that has a subtree below a subtree.
C2_Witness ==
    \E k \in DOMAIN stack :
        \E r \in Range(rules) :
            /\ Len(Rule_filters(r)) = 2
            /\ Rule_matches(r, stack[k], 0)
            /\ r.name \in RuleTree_select(rule_tree, stack[k], 0)
            /\ \E feat \in DOMAIN rule_tree.features :
                   DOMAIN rule_tree.features[feat].features # {}

\* The declined successor of an optional add_samjna rule of rules.py, at
\* the term the rule was applied to.
Retracted(rule, n, o) ==
    /\ rule.cls = "rules"
    /\ rule.optional
    /\ n = 1
    /\ rule.operator.category = "add_samjna"
    /\ o = step.index

\* The tags of the terms of the n-th successor compared with the tags the
\* same terms had before the step; Declined(before, params) is what a
\* retraction leaves.
SamjnaStep(Declined(_, _)) ==
    Applied =>
        \A n \in DOMAIN step.states :
            \A k \in 0..(StateLen(step.states[n]) - 1) :
                LET o == Origin(StepRule, step.state, step.index,
                                IsAccepted(StepRule, n), k)
                IN  o >= 0 =>
                        LET before == Item(step.state, o).samjna
                            after == Item(step.states[n], k).samjna
                        IN  IF Retracted(StepRule, n, o)
                            THEN after = Declined(before,
                                                  StepRule.operator.params)
                            ELSE before \subseteq after

\* The tags of the operator, whether or not the term bore them before.
AllNamed(before, params) == before \ params

\* Only the tags the operator would have added to the term.
OnlyAdded(before, params) == before \ (params \ before)

C4_DistinctSuccessors ==
    \A m, n \in DOMAIN step.states :
        m < n => ~State_eq(step.states[m], step.states[n])

\* C5: whenever A.has_apavada(B) holds, A and B have different names, the
\* same locus, the same window size and conflicting operators, and every
\* filter of B is a subset_of the filter of A at the same position.
C5_HasApavadaSound ==
    \A A, B \in Range(rules) :
        Rule_has_apavada(A, B) =>
            /\ A.name # B.name
            /\ A.locus = B.locus
            /\ Len(Rule_filters(A)) = Len(Rule_filters(B))
            /\ Operator_conflicts_with(A.operator, B.operator)
            /\ \A k \in DOMAIN Rule_filters(B) :
                   /\ k \in DOMAIN Rule_filters(A)
                   /\ Filter_subset_of(Rule_filters(B)[k], Rule_filters(A)[k])

\* Rule B's rule-list position is compared with rule A's.
C5_Input ==
    \E A, B \in Range(rules) :
        /\ Rule_has_apavada(A, B)
        /\ Len(Rule_filters(A)) # Len(Rule_filters(B))

\* C6: subset_of is reflexive and transitive over the filters built from
\* atomic filters with and_, or_ and not_: fa, fb and every filter at hand
\* as the third one, in each order.
C6_SubsetReflexiveTransitive ==
    /\ \A f \in Others : Filter_subset_of(f, f)
    /\ \A c \in Others :
           /\ Filter_subset_of(fa, fb) /\ Filter_subset_of(fb, c)
                  => Filter_subset_of(fa, c)
           /\ Filter_subset_of(fa, c) /\ Filter_subset_of(c, fb)
                  => Filter_subset_of(fa, fb)
           /\ Filter_subset_of(c, fa) /\ Filter_subset_of(fa, fb)
                  => Filter_subset_of(c, fb)
           /\ Filter_subset_of(fb, fa) /\ Filter_subset_of(fa, c)
                  => Filter_subset_of(fb, c)

\* A chain of three different filters: a conjunction within a conjunction,
\* the inner conjunction, and one of its members.
C6_Witness ==
    /\ Filter_subset_of(fa, fb)
    /\ Filter_name(fa) # Filter_name(fb)
    /\ Filter_subset_of(fb, F_dhatu)
    /\ Filter_name(fb) # Filter_name(F_dhatu)
    /\ Filter_subset_of(fa, F_dhatu)

\* A rule that is neither optional nor blocking-only.
Mandatory(rule) == ~rule.optional /\ rule.modifier # "Na"

\* The operator's result for a rule applied at index.
OperatorResult(rule, state, index) ==
    Operator_call(rule.operator, state, index + Rule_offset(rule), rule.locus)

\* new is res with (rule name, index) appended to the history (while the
\* model keeps the records) and the rule's utsarga rules added to the ops
\* of the term at position at; nothing else differs.
Stamped(new, res, rule, index, at) ==
    /\ StateLen(new) = StateLen(res)
    /\ Len(res.history) < MaxHist
           => new.history = Append(res.history, <<rule.name, index>>)
    /\ \A k \in 0..(StateLen(res) - 1) :
           /\ Item(new, k).data = Item(res, k).data
           /\ Item(new, k).samjna = Item(res, k).samjna
           /\ Item(new, k).ops =
                  IF k = at THEN Item(res, k).ops \cup rule.utsarga
                  ELSE Item(res, k).ops

\* What apply yields for a mandatory rule, the stamps going to the term at
\* index + shift(rule).
MandatoryApply(shift(_)) ==
    \A n \in DOMAIN stack :
        \A r \in Range(rules) :
            \A i \in 0..(StateLen(stack[n]) - 1) :
                Mandatory(r) /\ Rule_matches(r, stack[n], i) =>
                    LET res == OperatorResult(r, stack[n], i)
                        got == ra_apply(r, stack[n], i)
                    IN  IF State_eq(res, stack[n])
                        THEN got = <<>>
                        ELSE /\ Len(got) = 1
                             /\ Stamped(got[1], res, r, i, i + shift(r))

AtWindowStart(rule) == 0

\* C7 (amended): a rule that is neither optional nor blocking-only yields
\* no successor when the operator's result equals the input state, and
\* otherwise exactly one: the operator's result with (rule name, index)
\* appended to the history and every utsarga rule added to the ops of the
\* term at index, the first position of the rule's window.
C7_MandatoryApply == MandatoryApply(AtWindowStart)

\* C7 as claimed: the utsarga rules go to the ops of the term the rule
\* acted on, the one at index + offset.
C7_AsClaimed == MandatoryApply(Rule_offset)

\* A mandatory rule with a left context and utsarga rules has been applied.
C7_Witness ==
    /\ Applied
    /\ Mandatory(StepRule)
    /\ Rule_offset(StepRule) = 1
    /\ StepRule.utsarga # {}
    /\ Len(step.states) = 1
    /\ StepRule.utsarga \subseteq Item(step.states[1], step.index).ops
    /\ \E n \in DOMAIN stack : \E r \in Range(rules) :
           /\ Mandatory(r)
           /\ Rule_matches(r, stack[n], 0)
           /\ ra_apply(r, stack[n], 0) = <<>>

\* C8: an optional rule yields exactly two successors: the declined one
\* has the input's terms (apart from the tags an add_samjna operator names)
\* and the input's history extended by (rule name, index); the accepted one
\* is the operator's result with the history and utsarga stamps added.
C8_OptionalApply ==
    \A n \in DOMAIN stack :
        \A r \in Range(rules) :
            \A i \in 0..(StateLen(stack[n]) - 1) :
                r.optional /\ Rule_matches(r, stack[n], i) =>
                    LET got == ra_apply(r, stack[n], i) IN
                    /\ Len(got) = 2
                    /\ StateLen(got[1]) = StateLen(stack[n])
                    /\ Len(stack[n].history) < MaxHist =>
                           got[1].history =
                               Append(stack[n].history, <<r.name, i>>)
                    /\ \A k \in 0..(StateLen(stack[n]) - 1) :
                           /\ Item(got[1], k).data = Item(stack[n], k).data
                           /\ Item(got[1], k).ops = Item(stack[n], k).ops
                           /\ \/ Item(got[1], k).samjna = Item(stack[n], k).samjna
                              \/ /\ r.operator.category = "add_samjna"
                                 /\ k = i
                                 /\ Item(got[1], k).samjna =
                                        Item(stack[n], k).samjna
                                            \ r.operator.params
                    /\ Stamped(got[2], OperatorResult(r, stack[n], i), r, i, i)

\* An optional rule of templates.py matches where its operator changes
\* nothing.
C8_Input ==
    \E n \in DOMAIN stack : \E r \in Range(rules) :
        \E i \in 0..(StateLen(stack[n]) - 1) :
            /\ r.optional
            /\ r.cls = "templates"
            /\ Rule_matches(r, stack[n], i)
            /\ State_eq(OperatorResult(r, stack[n], i), stack[n])

\* C9: when a blocking-only rule is applied at index i, its single
\* successor has unchanged data and samjna for every term, a history
\* extended by (rule name, i) and every rule of its utsarga list in the ops
\* of the term at i; and in every later state on the path the driver
\* applies none of those utsarga rules to that term: no step applies, at the
\* position of a term, a rule that a blocking-only rule stamped on that term
\* earlier on the path.
C9_NaBlocks ==
    Applied =>
        /\ StepRule.modifier = "Na" =>
               /\ Len(step.states) = 1
               /\ StateLen(step.states[1]) = StateLen(step.state)
               /\ \A k \in 0..(StateLen(step.state) - 1) :
                      /\ Item(step.states[1], k).data = Item(step.state, k).data
                      /\ Item(step.states[1], k).samjna
                             = Item(step.state, k).samjna
               /\ Len(step.state.history) < MaxHist =>
                      step.states[1].history =
                          Append(step.state.history, <<step.rule, step.index>>)
               /\ StepRule.utsarga
                      \subseteq Item(step.states[1], step.index).ops
        /\ <<step.index, step.rule>> \notin step.blocked

\* A blocking-only rule with a utsarga rule has been applied, and on a
\* later state of the path that utsarga rule is a candidate at the stamped
\* term and would yield, but the step applies another rule.
C9_Witness ==
    /\ Applied
    /\ \E b \in step.blocked :
           /\ b[2] \in RuleTree_select(rule_tree, step.state, b[1])
           /\ ra_apply(RuleNamed(b[2]), step.state, b[1]) # <<>>
           /\ b[2] \in Item(step.state, b[1]).ops
           /\ <<b[2], b[1]>> # <<step.rule, step.index>>
    /\ StepRule.modifier = "Na"
    /\ StepRule.utsarga # {}

\* The place of a rule in ranked_rules.
Place(name) == CHOOSE k \in DOMAIN ranked_rules : ranked_rules[k].name = name

\* C10: matching_rules(state) yields a pair (rule, index) only if the rule
\* is in the tree's candidate set for index, yields the pairs in
\* rank-descending rule order and, for one rule, in ascending index order;
\* so the rule apply_next_rule applies is the highest-ranked rule that
\* yields a successor at any position: no rule of higher rank that is a
\* candidate somewhere and not stamped there yields anything.
C10_RankOrder ==
    /\ \A n \in DOMAIN stack :
           LET pairs == Ashtadhyayi_matching_rules(stack[n]) IN
           /\ \A p \in DOMAIN pairs :
                  pairs[p][1] \in
                      RuleTree_select(rule_tree, stack[n], pairs[p][2])
           /\ \A p, q \in DOMAIN pairs :
                  p < q =>
                      /\ RuleNamed(pairs[p][1]).rank >= RuleNamed(pairs[q][1]).rank
                      /\ Place(pairs[p][1]) <= Place(pairs[q][1])
                      /\ pairs[p][1] = pairs[q][1] => pairs[p][2] < pairs[q][2]
    /\ Applied =>
           \A r \in Range(rules) :
               \A i \in 0..(StateLen(step.state) - 1) :
                   /\ r.rank > StepRule.rank
                   /\ r.name \in RuleTree_select(rule_tree, step.state, i)
                   /\ r.name \notin Item(step.state, i).ops
                   => ra_apply(r, step.state, i) = <<>>

\* A rule is applied at a later position although a rule of lower rank
\* yields at an earlier position.
C10_Witness ==
    /\ Applied
    /\ step.index > 0
    /\ \E r \in Range(rules) :
           /\ r.rank < StepRule.rank
           /\ r.name \in RuleTree_select(rule_tree, step.state, 0)
           /\ r.name \notin Item(step.state, 0).ops
           /\ ra_apply(r, step.state, 0) # <<>>

(***************************************************************************)
(* derive as a search: what is pushed is popped, what is final is emitted. *)
(***************************************************************************)
\* apply_next_rule returns None for the state: it is in its final form.
Terminal(state) == Ashtadhyayi_apply_next_rule(state).states = <<>>

\* Some pending state's history has reached the length the model keeps:
\* the derivation is longer than the model follows exactly.
HistoryFull == \E d \in DOMAIN stack : Len(stack[d].history) >= MaxHist

\* A final state is pending at depth d of the stack.
PendingFinal(d) == pc = "running" /\ Len(stack) >= d /\ Terminal(stack[d])

\* The last iteration popped the state at depth d, found it final and
\* yielded its forms.
PoppedFinal(d) ==
    /\ step.rule = "none"
    /\ Len(stack) = d - 1
    /\ Terminal(step.state)
    /\ \/ Len(emitted) = MaxEmit
       \/ \A form \in Range(Ashtadhyayi_sandhi_asiddha(step.state)) :
              form \in Range(emitted)

\* An iteration pops the top, and either extends the stack with every
\* state apply_next_rule returned or yields the forms of the popped state.
NoneDropped ==
    (pc = "running" /\ stack # <<>>) =>
        LET state == stack[Len(stack)]
            rest == SubSeq(stack, 1, Len(stack) - 1)
            new_states == Ashtadhyayi_apply_next_rule(state).states
        IN  IF new_states = <<>>
            THEN /\ stack' = rest
                 /\ emitted' = Yielded(emitted \o
                                       Ashtadhyayi_sandhi_asiddha(state))
            ELSE /\ stack' = rest \o new_states
                 /\ emitted' = emitted

\* C11: no pushed state is dropped, and every final state pending at any
\* depth of the stack is eventually popped and its forms emitted, whatever
\* lies above it, in every derivation the model follows to its end (the
\* derivations with finitely many reachable states within the bounds).
C11_AllEmitted ==
    /\ [][NoneDropped]_vars
    /\ \A d \in 1..MaxStack :
           PendingFinal(d) ~> (PoppedFinal(d) \/ HistoryFull \/ StackFull)

\* A final state that waited at the bottom of the stack below its sibling
\* has been popped and its form emitted after the sibling's.
C11_Witness ==
    /\ step.rule = "none"
    /\ stack = <<>>
    /\ Len(step.state.history) = 1
    /\ Len(emitted) >= 2
    /\ PoppedFinal(1)

\* C12: derive never emits the same surface form twice.
C12_DistinctForms ==
    \A i, j \in DOMAIN emitted : i # j => emitted[i] # emitted[j]

\* Two derivation paths of one finished derivation ended in final states
\* with the same surface form.
C12_Input ==
    /\ pc = "done"
    /\ Len(emitted) = 2
    /\ emitted[1] = emitted[2]
    /\ step.rule = "none"
    /\ Len(step.state.history) = 1

(***************************************************************************)
(* State objects.                                                          *)
(***************************************************************************)
\* What the terms of the receiver (old) and of the result (new) have in
\* common after a method with the given index.
SharedTerms(method, index, old, new) ==
    LET p == IF index > Len(old) THEN Len(old) ELSE index IN
    CASE method = "insert" ->
            /\ Len(new) = Len(old) + 1
            /\ \A k \in DOMAIN old :
                   new[IF k <= p THEN k ELSE k + 1] = old[k]
      [] method = "swap" ->
            /\ Len(new) = Len(old)
            /\ \A k \in DOMAIN old : k # index + 1 => new[k] = old[k]
      [] method = "remove" ->
            /\ Len(new) = Len(old) - 1
            /\ \A k \in DOMAIN old :
                   k # index + 1 => new[IF k <= index THEN k ELSE k - 1] = old[k]
      [] method = "mark_rule" -> new = old
      [] OTHER -> TRUE

\* C13: insert, swap, remove, mark_rule and replace_all return a new State
\* (an object that was not there, holding no list an earlier State holds)
\* and leave the lists of terms and the histories of the receiver and of
\* every other earlier State unchanged; every term of the receiver that is
\* not at the affected index is a term of the result.
C13_StateImmutable ==
    [][LET result == objects'[Len(objects')]
           self == objects[call'[2]]
       IN  /\ Len(objects') = Len(objects) + 1
           /\ \A k \in DOMAIN objects :
                  /\ objects'[k] = objects[k]
                  /\ Deref(lists', objects[k]) = Deref(lists, objects[k])
                  /\ result.items # objects[k].items
                  /\ result.history # objects[k].history
           /\ SharedTerms(call'[1], call'[3], lists[self.items],
                          lists'[result.items])
           /\ call'[1] = "replace_all" =>
                  lists'[result.history] = lists[self.history]
      ]_vars

\* A State with a history and two terms has had its first term swapped
\* with a rule given: the result differs from it in terms and history.
C13_Witness ==
    /\ call[1] = "swap"
    /\ call[3] = 0
    /\ LET self == Deref(lists, objects[call[2]])
           result == Deref(lists, objects[Len(objects)])
       IN  /\ Len(self.items) = 2
           /\ self.history # <<>>
           /\ result.items[1] # self.items[1]
           /\ result.items[2] = self.items[2]
           /\ Len(result.history) = Len(self.history) + 1

(***************************************************************************)
(* The derivation history.                                                 *)
(***************************************************************************)
\* C14: the history is append-only: every state a rule application yields
\* (declined, accepted or blocking) has the history of the state the rule
\* was applied to, followed by the one record (rule name, index) of that
\* application; checked for the histories shorter than the MaxHist records
\* the model keeps.
C14_HistoryAppendOnly ==
    (Applied /\ Len(step.state.history) < MaxHist) =>
        \A n \in DOMAIN step.states :
            step.states[n].history =
                Append(step.state.history, <<step.rule, step.index>>)

\* An optional rule was applied to a state that already had a history,
\* and yielded a declined and an accepted state.
C14_Witness ==
    /\ Applied
    /\ StepRule.optional
    /\ Len(step.states) = 2
    /\ step.state.history # <<>>
    /\ Len(step.state.history) < MaxHist
    /\ step.states[2].history[1] = step.state.history[1]

(***************************************************************************)
(* The value stack and the lakshana set of an upadesha.                    *)
(***************************************************************************)
\* The place of a layer in the value stack.
LayerOf(field) == CHOOSE k \in DOMAIN Fields : Fields[k] = field

\* A write of one layer left the earlier layers as they were and set the
\* layer and every later one to the string written.
WroteLayer ==
    written'[1] # "raw" =>
        \A k \in DOMAIN Fields :
            upa'.data[Fields[k]] =
                IF k < LayerOf(written'[1]) THEN upa.data[Fields[k]]
                ELSE written'[2]

\* C15: writing one layer of the value stack (set_value, set_asiddhavat,
\* DataSpace.replace with one field) leaves every earlier layer unchanged
\* and sets every later layer to the written string, the empty string
\* included.
C15_WriteLayer == [][WroteLayer]_vars

\* The empty string was written to the value layer of a term whose later
\* layers are not empty.
C15_Input ==
    /\ written = <<"value", <<>>>>
    /\ upa.data.value = <<>>
    /\ upa.data.asiddha # <<>>

\* C16: after set_raw the lakshana set is the set of the raw values the
\* term has held, the one it holds now included, and a lakshana filter on
\* any of them matches the term.
C16_LakshanaIsHistory ==
    (written # <<>> /\ written[1] = "raw") =>
        /\ upa.lakshana = held
        /\ \A name \in held : lakshana_func({name}, upa)

\* set_raw gave the term a raw value it had not held before.
C16_Input ==
    /\ written # <<>>
    /\ written[1] = "raw"
    /\ upa.data.raw = written[2]
    /\ Cardinality(held) = 2

(***************************************************************************)
(* Parsing the indicatory letters.                                         *)
(***************************************************************************)
\* C19: when the last letter of raw is a consonant C, parsing drops the
\* last letter from the value and adds the tag Cit, unless the vibhakti
\* flag is set and C is one of tu, s, m: then the value ends with that C
\* and no tag Cit is added; raw is stored as given.
C19_HalAntyam ==
    (made # <<>> /\ given[1][Len(given[1])] \in Sounds_hal) =>
        LET raw == given[1]
            C == raw[Len(raw)]
            term == made[1]
            last == Len(Clean_ir(raw))
            kept == Kept(raw, given[2], given[3], given[4])
        IN  /\ term.data.raw = raw
            /\ Len(term.data.value) = Cardinality(kept)
            /\ IF given[3] /\ C \in Sounds_tu_s_m
               THEN /\ last \in kept
                    /\ term.data.value[Len(term.data.value)] = C
                    /\ (C \o "it") \notin term.samjna
               ELSE /\ last \notin kept
                    /\ (C \o "it") \in term.samjna

\* A vibhakti ending in s was parsed with the flag set: the s stayed.
C19_Witness ==
    /\ made # <<>>
    /\ given[1] = <<"a", "s">>
    /\ given[3]
    /\ made[1].data.value = <<"a", "s">>
    /\ made[1].samjna = {}

\* The places of the nasal marks that follow a vowel in raw.
NasalVowels(raw) ==
    {k \in DOMAIN raw : k > 1 /\ raw[k] = "~" /\ raw[k - 1] \in Sounds_ac}

\* C20: for every nasal-marked vowel V~ of raw the tag Vdit is added and
\* the two letters are removed from the value (no nasal mark is left, and
\* the value is shorter than raw without its accents by two letters for
\* every V~); for raw = C V ~ with C a consonant, CV none of Yi, wu, qu,
\* constructed as the tests do without the pratyaya flag, the value is C.
C20_NasalVowel ==
    made # <<>> =>
        LET raw == given[1]
            term == made[1]
        IN  /\ \A k \in NasalVowels(raw) :
                   (raw[k - 1] \o "dit") \in term.samjna
            /\ NasalVowels(raw) # {} =>
                   /\ "~" \notin Range(term.data.value)
                   /\ Len(term.data.value) <=
                          Len(StripSvara(raw)) - 2 * Cardinality(NasalVowels(raw))
            /\ ( /\ Len(raw) = 3
                 /\ raw[1] \in Sounds_hal
                 /\ NasalVowels(raw) = {3}
                 /\ <<raw[1], raw[2]>> \notin
                        {<<"Y", "i">>, <<"w", "u">>, <<"q", "u">>}
                 /\ ~given[2] )
               => term.data.value = <<raw[1]>>

\* A raw string with a nasal-marked vowel before a final i~r was parsed.
C20_Input ==
    /\ made # <<>>
    /\ given[1] = <<"a", "~", "i", "~", "r">>
    /\ "adit" \notin made[1].samjna

(***************************************************************************)
(* Conflicts between operators.                                            *)
(***************************************************************************)
\* C17: a.conflicts_with(b) is true exactly when the categories of a and b
\* are dirgha and hrasva, or ti and tasya, or are both insert, both replace
\* or both add_samjna, and b.conflicts_with(a) returns the same.
C17_ConflictPairs ==
    verdict # <<>> =>
        LET a == pair[1].category
            b == pair[2].category
        IN  /\ verdict[1] =
                   \/ {a, b} = {"dirgha", "hrasva"}
                   \/ {a, b} = {"ti", "tasya"}
                   \/ a = b /\ a \in {"insert", "replace", "add_samjna"}
            /\ verdict[2] = verdict[1]

\* Two operators of the category dirgha were compared.
C17_Input ==
    /\ verdict # <<>>
    /\ pair[1].category = "dirgha"
    /\ pair[2].category = "dirgha"
    /\ verdict[1]

(***************************************************************************)
(* Range queries on the Dhatupatha.                                        *)
(***************************************************************************)
\* The last row of a gana.
LastOfGana(gana) ==
    CHOOSE i \in DOMAIN gana_map :
        gana_map[i] = gana /\ \A j \in DOMAIN gana_map : gana_map[j] = gana => j <= i

\* C18: dhatu_range(start, end) is the rows of the file from the first
\* row of start up to and including the row of end (the last one, where
\* end has several rows after start); without end it is the rows from the
\* first row of start to the last row of the gana of that row.
C18_DhatuRange ==
    answer # <<>> =>
        IF asked[2] = "None"
        THEN answer[1] = SubSeq(all_dhatu, First(asked[1]),
                                LastOfGana(gana_map[First(asked[1])]))
        ELSE Last(asked[2]) >= First(asked[1]) =>
                answer[1] = SubSeq(all_dhatu, First(asked[1]), Last(asked[2]))

\* A range was asked from the first root of a file to its last.
C18_Input ==
    /\ answer # <<>>
    /\ all_dhatu = <<"BU", "eDa", "ad">>
    /\ asked = <<"BU", "ad">>
    /\ answer[1] = <<"BU", "eDa">>

(***************************************************************************)
(* The ending i~r and parsing twice.                                       *)
(***************************************************************************)
\* The letters of raw before its ending i~r, accents left out.
BeforeIr(raw) == SubSeq(StripSvara(raw), 1, Len(StripSvara(raw)) - 3)

\* No other rule takes a letter of these: no nasal mark among them, and
\* the first letters are not dropped as indicatory.
Plain(letters, pratyaya) ==
    /\ "~" \notin Range(letters)
    /\ ~pratyaya
    /\ letters # <<>> => <<letters[1], (letters \o <<"i">>)[2]>> \notin
            {<<"Y", "i">>, <<"w", "u">>, <<"q", "u">>}

\* C21: parsing a raw string that ends in i~r adds the tag irit, keeps the
\* letters before i~r at the head of the value, and the value ends in ir
\* (the ending without its nasal mark).
C21_IrEnding ==
    (made # <<>> /\ EndsWith_ir(StripSvara(given[1]))) =>
        LET term == made[1]
            head == BeforeIr(given[1])
            n == Len(term.data.value)
        IN  /\ "irit" \in term.samjna
            /\ Plain(head, given[2]) =>
                   /\ n = Len(head) + 2
                   /\ SubSeq(term.data.value, 1, Len(head)) = head
                   /\ SubSeq(term.data.value, n - 1, n) = <<"i", "r">>

\* A root in i~r with letters before the ending was parsed.
C21_Input ==
    /\ made # <<>>
    /\ given[1] = <<"k", "i", "~", "r">>
    /\ made[1].data.value = <<>>

(***************************************************************************)
(* subset_of and the states a filter matches.                              *)
(***************************************************************************)
\* One-term states with every set of the tags the atomic filters read.
TaggedStates ==
    {State(<<Str(<<"B", "u">>, <<"B", "u">>, tags)>>) :
        tags \in SUBSET {"dhatu", "kit"}}

\* b matches on every (state, index) on which a matches, index inside the
\* state or one past it.
MatchesWithin(a, b) ==
    \A state \in TaggedStates, index \in 0..1 :
        Filter_call(a, state, index) => Filter_call(b, state, index)

\* C23, as amended: a.subset_of(b) implies that b matches on every
\* (state, index) on which a matches.
C23_SubsetSound ==
    /\ Filter_subset_of(fa, fb) => MatchesWithin(fa, fb)
    /\ Filter_subset_of(fb, fa) => MatchesWithin(fb, fa)

\* C23, as claimed: a.subset_of(b) is true if and only if b matches on
\* every (state, index) on which a matches.
C23_AsClaimed ==
    /\ Filter_subset_of(fa, fb) <=> MatchesWithin(fa, fb)
    /\ Filter_subset_of(fb, fa) <=> MatchesWithin(fb, fa)

\* A conjunction is compared with one of its members, which is not a
\* member of the other filter by name alone.
C23_Witness ==
    /\ fa.kind = "and"
    /\ fb.kind = "samjna"
    /\ Filter_subset_of(fa, fb)
    /\ ~MatchesWithin(fb, fa)

(***************************************************************************)
(* The tuples of a rule block.                                             *)
(***************************************************************************)
\* Two filters match on the same (state, index).
SameMatches(a, b) == MatchesWithin(a, b) /\ MatchesWithin(b, a)

\* What the tuple read in this step resolved to, position by position.
Resolved ==
    /\ \A k \in 1..3 :
           LET override == tuple_in'[k + 1]
               filt == tuple_out'[2][k]
           IN  CASE override = "None" -> filt = base[k]
                 [] override = "True" ->
                        filt = prev_filters[k] /\ filt = recent[k]
                 [] OTHER ->
                        /\ filt # NoFilter
                        /\ SameMatches(filt, and_(<<auto(override), base[k]>>))
    /\ IF tuple_in'[5] = "True"
       THEN tuple_out'[3] = prev_operator /\ tuple_out'[3] = recent[4]
       ELSE tuple_out'[3] = tuple_in'[5]

\* C24: in a rule block, at each window position of each tuple, None
\* resolves to the base filter, True to the filter the previous tuple
\* resolved to there, which is what the last entry other than True
\* resolved to, and any other override to a filter that matches where
\* auto(override) and the base filter both match; an operator of True
\* resolves to the previous tuple's operator.
C24_Inherit == [][Resolved]_vars

\* A second True in a row at the center, after an override by name, and a
\* second True in a row as operator.
C24_Witness ==
    /\ tuple_in # <<>>
    /\ tuple_in[3] = "True"
    /\ tuple_in[5] = "True"
    /\ base[2] = F_dhatu
    /\ recent[2] = and_(<<F_kit, F_dhatu>>)
    /\ tuple_out[2][2] = recent[2]
    /\ recent[4] = "hrasva"
    /\ tuple_out[3] = "hrasva"

(***************************************************************************)
(* Substitution.                                                           *)
(***************************************************************************)
\* The place of the last vowel of a string, 0 where it has none.
LastAc(s) ==
    IF \A k \in DOMAIN s : s[k] \notin Sounds_ac THEN 0
    ELSE CHOOSE k \in DOMAIN s :
             s[k] \in Sounds_ac /\ \A j \in DOMAIN s : s[j] \in Sounds_ac => j <= k

\* C27: tasya with a sthani tagged mit, on a term whose value has a vowel,
\* returns the state with sthani.value put in right after the last vowel
\* of the value, all other letters where they were.
C27_MitAfterLastVowel ==
    ( /\ replaced # <<>>
      /\ ~sthani[2]
      /\ sthani[1][1] = "upa"
      /\ "mit" \in sthani[1][2].samjna
      /\ LastAc(Item(host, 0).data.value) > 0 ) =>
        LET old == Item(host, 0).data.value
            k == LastAc(old)
        IN  /\ replaced[1][1] = "ok"
            /\ Item(replaced[1][2], 0).data.value =
                   SubSeq(old, 1, k) \o sthani[1][2].data.value
                       \o SubSeq(old, k + 1, Len(old))

\* The augment num was put into a value that ends in its last vowel.
C27_Input ==
    /\ replaced # <<>>
    /\ ~sthani[2]
    /\ sthani[1] = <<"upa", Upadesha_raw(<<"n", "u", "~", "m">>, {}, FALSE, FALSE, FALSE)>>
    /\ Item(host, 0).data.value = <<"m", "u">>
    /\ replaced[1][1] = "ok"
    /\ Item(replaced[1][2], 0).data.value = <<"n", "m", "u">>

(***************************************************************************)
(* Parsing the parsed string again.                                        *)
(***************************************************************************)
\* The second parse returned the string it was given and no tag.
Stable ==
    /\ again[1][1] = "ok"
    /\ again[1][2][1] = made[1].data.clean
    /\ again[1][2][2] = {}

\* The second parse has nothing to take from a string: it is not empty,
\* it does not end in a consonant other than tu, s, m, and it does not
\* begin with Yi, wu or qu.
NothingToTake(clean) ==
    /\ clean # <<>>
    /\ clean[Len(clean)] \in Sounds_hal => clean[Len(clean)] \in Sounds_tu_s_m
    /\ ~(Len(clean) >= 2 /\ <<clean[1], clean[2]>> \in
             {<<"Y", "i">>, <<"w", "u">>, <<"q", "u">>})

\* C22, as amended: parsing the clean string of a parsed raw again with
\* vibhakti set returns that string and no tag exactly when the string is
\* not empty, does not end in a consonant other than tu, s, m and does not
\* begin with Yi, wu or qu; on the empty string the second parse raises.
C22_Reparse ==
    again # <<>> =>
        /\ Stable <=> NothingToTake(made[1].data.clean)
        /\ made[1].data.clean = <<>> <=> again[1][1] = "raise"

\* C22, as claimed: for every raw the second parse takes no further letter
\* and adds no tag the first parse did not add.
C22_AsClaimed ==
    again # <<>> =>
        /\ again[1][1] = "ok"
        /\ again[1][2][1] = made[1].data.clean
        /\ again[1][2][2] \subseteq made[1].samjna

\* A string that the first parse left ending in s was parsed again, and
\* one that it left ending in k.
C22_Witness ==
    /\ again # <<>>
    /\ given[1] = <<"a", "s", "k">>
    /\ ~given[2]
    /\ made[1].data.clean = <<"a", "s">>
    /\ Stable

\* select as the index is described: a feature child is followed only
\* where index + offset is a position of the state.
RECURSIVE SelectInBounds(_, _, _)
SelectInBounds(tree, state, index) ==
    Range(tree.rules) \cup
    UNION {IF index + feat[2] >= 0
              /\ index + feat[2] < StateLen(state)
              /\ Filter_call(feat[1], state, index + feat[2])
           THEN SelectInBounds(tree.features[feat], state, index)
           ELSE {} : feat \in DOMAIN tree.features}

\* C26: select(state, index) follows a feature child ((filt, offset),
\* subtree) only when index + offset is a position of the state and filt
\* holds there: a feature whose position is outside the state adds no
\* candidates, whatever filter it is.
C26_InBounds ==
    selection # <<>> =>
        selection[1] = SelectInBounds(rule_tree, probe[1], probe[2])

\* select was called on a tree with a negated feature whose position is
\* past the end of the state.
C26_Input ==
    /\ selection # <<>>
    /\ \E feat \in DOMAIN rule_tree.features :
           /\ feat[1].kind = "not"
           /\ probe[2] + feat[2] >= StateLen(probe[1])

\* Where a tree stores its rules: pairs (rule, the features on the path
\* from the root to the node whose residual list holds it).
RECURSIVE Placements(_, _)
Placements(tree, path) ==
    {<<tree.rules[k], path>> : k \in DOMAIN tree.rules} \cup
    UNION {Placements(tree.features[feat], Append(path, feat)) :
              feat \in DOMAIN tree.features}

\* C29: in the tree built from the (distinct) rules, every rule is stored
\* exactly once, in the residual list of one node, so len(tree) is the
\* number of rules; the features on the path to that node are features of
\* the rule, and no feature occurs twice on a path.
C29_StoredOnce ==
    LET placed == Placements(rule_tree, <<>>) IN
    /\ RuleTree_len(rule_tree) = Len(ranked_rules)
    /\ \A k \in DOMAIN ranked_rules :
           Cardinality({p \in placed : p[1] = ranked_rules[k].name}) = 1
    /\ \A p \in placed :
           /\ \A i \in DOMAIN p[2] :
                  p[2][i] \in Rule_features(RuleNamed(p[1]))
           /\ \A i, j \in DOMAIN p[2] : p[2][i] = p[2][j] => i = j

\* A tree of MaxRules rules with more than one feature below the root and
\* a rule stored two levels down, one of whose features is shared with
\* another rule.
C29_Witness ==
    /\ Len(ranked_rules) = MaxRules
    /\ Cardinality(DOMAIN rule_tree.features) > 1
    /\ \E p \in Placements(rule_tree, <<>>) :
           /\ Len(p[2]) > 1
           /\ \E r \in Range(ranked_rules) :
                  r.name # p[1] /\ p[2][1] \in Rule_features(r)

\* matching_rules with the candidates selected from a given tree.
MatchingIn(tree, state) ==
    LET n == StateLen(state)
        OfRule(ra) ==
            LET all == [i \in 1..n |-> <<ra.name, i - 1>>]
            IN  SelectSeq(all, LAMBDA pr :
                    pr[1] \in RuleTree_select(tree, state, pr[2]))
    IN  Flatten([k \in DOMAIN ranked_rules |-> OfRule(ranked_rules[k])])

\* C30: the driver is deterministic: for the state derive pops next the
\* pairs (rule, index) matching_rules yields, in their order, are the same
\* for every tree the construction can build from the ranked rules,
\* whatever order the feature dictionary is iterated in.
C30_Deterministic ==
    stack # <<>> =>
        LET state == stack[Len(stack)]
            pairs == Ashtadhyayi_matching_rules(state)
        IN  \A tree \in RuleTrees(ranked_rules, {}) :
                MatchingIn(tree, state) = pairs

\* A rule was applied by an engine whose rules can be built into more than
\* one tree.
C30_Witness ==
    /\ Applied
    /\ Cardinality(RuleTrees(ranked_rules, {})) > 1
    /\ stack # <<>>
    /\ Ashtadhyayi_matching_rules(stack[Len(stack)]) # <<>>

\* The pairs of matching_rules that apply_next_rule does not skip and that
\* yield a successor: places in the sequence of pairs.
YieldingPairs(state) ==
    LET pairs == Ashtadhyayi_matching_rules(state) IN
    {k \in DOMAIN pairs :
        /\ pairs[k][1] \notin Item(state, pairs[k][2]).ops
        /\ ra_apply(RuleNamed(pairs[k][1]), state, pairs[k][2]) # <<>>}

\* C28: an iteration of derive yields the forms of the popped state if and
\* only if no pair of matching_rules, other than those whose rule is in the
\* ops of the term at the index, yields a successor; a state with a
\* successor is not emitted, and what is pushed for it are the successors
\* of one rule at one index.
C28_EmitIffTerminal ==
    [][(pc = "running" /\ stack # <<>>) =>
        LET state == stack[Len(stack)]
            left == SubSeq(stack, 1, Len(stack) - 1)
            pairs == Ashtadhyayi_matching_rules(state)
        IN  IF YieldingPairs(state) = {}
            THEN /\ stack' = left
                 /\ emitted' = Yielded(emitted \o
                                       Ashtadhyayi_sandhi_asiddha(state))
            ELSE /\ emitted' = emitted
                 /\ \E k \in YieldingPairs(state) :
                        stack' = left \o ra_apply(RuleNamed(pairs[k][1]),
                                                  state, pairs[k][2])]_vars

\* The last iteration emitted the forms of a state for which a pair was
\* skipped that would have yielded a successor, after an iteration that
\* pushed the successors of a rule.
C28_Witness ==
    /\ step.rule = "none"
    /\ step.index = -1
    /\ emitted # <<>>
    /\ step.state.history # <<>>
    /\ LET pairs == Ashtadhyayi_matching_rules(step.state) IN
       \E k \in DOMAIN pairs :
           /\ pairs[k][1] \in Item(step.state, pairs[k][2]).ops
           /\ ra_apply(RuleNamed(pairs[k][1]), step.state, pairs[k][2]) # <<>>

\* The operator of the rule at the k-th pair is a tasya whose sthani falls
\* through every branch for the term it is called on.
FallsThrough(state, pairs, k) ==
    LET ra == RuleNamed(pairs[k][1])
        at == pairs[k][2] + Rule_offset(ra)
    IN  /\ ra.modifier # "Na"
        /\ ra.operator.category = "tasya"
        /\ Tasya_new_value(<<"upa", ra.operator.term[1]>>,
                           "adi" \in ra.operator.params,
                           Upadesha_get_at(Item(state, at), ra.locus)) = <<>>

\* apply_next_rule(state) comes to such an operator: the pairs before it
\* are skipped or yield nothing.
MeetsFallThrough(state) ==
    LET pairs == Ashtadhyayi_matching_rules(state) IN
    \E k \in DOMAIN pairs :
        /\ pairs[k][1] \notin Item(state, pairs[k][2]).ops
        /\ FallsThrough(state, pairs, k)
        /\ \A j \in 1..(k - 1) :
               \/ pairs[j][1] \in Item(state, pairs[j][2]).ops
               \/ /\ ~FallsThrough(state, pairs, j)
                  /\ ra_apply(RuleNamed(pairs[j][1]), state,
                              pairs[j][2]) = <<>>

\* The state in which a derive call starts on a fresh engine.
FreshStart ==
    /\ pc = "running"
    /\ \E sequence \in InitialSequences : stack = <<State(sequence)>>
    /\ blocked = << {} >>
    /\ emitted = <<>>
    /\ step = NoStep

\* C25: when a tasya substitution meets a sthani that falls through every
\* branch while derive runs, the call ends with the error: the forms
\* emitted before it stay as they are, none is emitted after it, the rules
\* of the engine and its tree are untouched, and the next derive call
\* starts in the state in which a call on a fresh engine starts.
C25_ErrorStopsDerivation ==
    [][/\ (pc = "running" /\ stack # <<>>
            /\ MeetsFallThrough(stack[Len(stack)]))
          => (pc' = "raised" /\ emitted' = emitted)
       /\ (pc = "raised")
          => \/ pc' = "raised" /\ emitted' = emitted
             \/ FreshStart'
       /\ <<rules, ranked_rules, rule_tree>>' =
              <<rules, ranked_rules, rule_tree>>]_vars

\* A derive call has ended with the error after it had emitted a form.
C25_Witness ==
    /\ pc = "raised"
    /\ emitted # <<>>
    /\ MeetsFallThrough(step.state)

====
